---- MODULE Spec2Model ----
(***************************************************************************)
(* A model of the hybrid retrieval engine of tds-virtual-ta                *)
(* (src/VectorDB.py, class SemanticSearchDB).                              *)
(*                                                                         *)
(* Strings are sequences of one-character strings; Python's 0-based        *)
(* positions are kept, so the character at Python index i is s[i + 1].     *)
(* Scores are exact fixed-point numbers: distances, semantic and keyword   *)
(* scores and the semantic weight are counted in units of 1/Scale, final   *)
(* scores in units of 1/(Scale*Scale).                                     *)
(***************************************************************************)
EXTENDS Integers, Sequences, FiniteSets, TLC

VARIABLES
    \* _split_into_chunks: arguments, locals and the position in the function
    text, max_size, overlap, start, chunks, spans, iters, cpc,
    \* the index: the entries of self.collection, in insertion order
    collection,
    \* the backend for the call at hand: the retrievers it fails for, and the
    \* embedding distance from the query to each stored text
    down, distance,
    \* hybrid_search / search: arguments, locals, return value, position
    query, n_results, category_filter, semantic_weight,
    asked, semantic_results, keyword_results, combined_results, result, spc,
    \* _categorize_content: arguments, return value, position
    content, title, category, kpc,
    \* add_documents: the argument of the call, what the backend does with an
    \* id it already holds, the calls made, the index before the call, the
    \* ids handed out so far with the chunks they were given to, the ids of
    \* the call that were already stored, the chunks of the call that were
    \* discarded without an error, the exception of the call, position
    documents, on_duplicate, calls, before, issued, clashed, dropped, raised,
    ipc,
    \* evaluate_search: the retrieved and relevant ids of the cases done, the
    \* three lists of per-case metrics, the returned report, position
    judged, all_precisions, all_recalls, all_avg_precisions, report, epc,
    \* answer_question (src/main.py): the knowledge base, the question, the
    \* search results used and the number of searches made, the locals
    \* context_parts, links, context and answer, the HTTP status, position
    kb, question, search_results, searches, context_parts, links, context,
    answer, status, apc,
    \* scrape_category_by_date (src/Scraper.py): the locals page and
    \* consecutive_empty_pages, the number of topics in all_data, the kinds
    \* of the listing pages fetched so far, position
    page, consecutive_empty_pages, all_data, fetched, rpc,
    \* chunk_content (src/Scraper.py): arguments, locals, position
    doc_text, doc_size, doc_overlap, doc_i, doc_chunks, dpc,
    \* add_documents, the insertion loop: the lists texts, metadatas and ids
    \* after the loop over the documents, the loop index i, the calls of
    \* collection.add made so far, position
    all_texts, all_metadatas, all_ids, batch_from, inserts, bpc

chunkVars == <<text, max_size, overlap, start, chunks, spans, iters, cpc>>

callVars == <<down, distance, query, n_results, category_filter,
              semantic_weight, asked, semantic_results, keyword_results,
              combined_results, result, spc>>

searchVars == <<collection, callVars>>

catVars == <<content, title, category, kpc>>

ingestVars == <<documents, on_duplicate, calls, before, issued, clashed,
                dropped, raised, ipc>>

evalVars == <<judged, all_precisions, all_recalls, all_avg_precisions, report,
              epc>>

answerVars == <<kb, question, search_results, searches, context_parts, links,
                context, answer, status, apc>>

scrapeVars == <<page, consecutive_empty_pages, all_data, fetched, rpc>>

docVars == <<doc_text, doc_size, doc_overlap, doc_i, doc_chunks, dpc>>

batchVars == <<all_texts, all_metadatas, all_ids, batch_from, inserts, bpc>>

moreVars == <<answerVars, scrapeVars, docVars, batchVars>>

restVars == <<catVars, ingestVars, evalVars, moreVars>>

vars == <<chunkVars, searchVars, restVars>>

(***************************************************************************)
(* Bounds of the model.                                                    *)
(***************************************************************************)
MaxLen == 5
MaxSize == 3
MaxOverlap == 2
\* The most entries the index holds, and the largest n_results asked for.
MaxChunks == 2
MaxK == 2

\* The characters texts are made of: a letter, the space, two sentence marks.
Alphabet == {"a", " ", ".", "!"}

Whitespace == {" "}

Max(a, b) == IF a >= b THEN a ELSE b

Min(a, b) == IF a <= b THEN a ELSE b

\* All strings over S of length at most n.
StringsUpTo(S, n) == UNION {[1..m -> S] : m \in 0..n}

(***************************************************************************)
(* Python string primitives.                                               *)
(***************************************************************************)
\* s[a:b] for 0 <= a, with b clipped to len(s).
Slice(s, a, b) ==
    LET e == Min(b, Len(s))
    IN  IF a >= e THEN <<>> ELSE [i \in 1..(e - a) |-> s[a + i]]

\* Whether sub occurs in s at Python index i.
OccursAt(s, sub, i) ==
    /\ i >= 0
    /\ i + Len(sub) <= Len(s)
    /\ \A j \in 1..Len(sub) : s[i + j] = sub[j]

\* s.rfind(sub, a, b): the highest index i with s[i:i+len(sub)] = sub inside
\* s[a:b], or -1.
RFind(s, sub, a, b) ==
    LET e == Min(b, Len(s))
        hits == {i \in a..(e - Len(sub)) : OccursAt(s, sub, i)}
    IN  IF hits = {} THEN -1 ELSE CHOOSE i \in hits : \A j \in hits : j <= i

\* The Python indices of s that hold a non-whitespace character.
Inked(s) == {i \in 0..(Len(s) - 1) : s[i + 1] \notin Whitespace}

\* A slip in the trimming: the slice is kept as it is.
StripSpanNone(s, a, b) == <<a, Max(a, Min(b, Len(s)))>>

\* The half-open span [lo, hi) of s[a:b].strip() inside s; lo = hi when the
\* strip leaves nothing.
StripSpan(s, a, b) ==
    LET e == Min(b, Len(s))
        ink == {i \in Inked(s) : a <= i /\ i < e}
    IN  IF ink = {} THEN <<a, a>>
        ELSE <<CHOOSE i \in ink : \A j \in ink : i <= j,
               (CHOOSE i \in ink : \A j \in ink : j <= i) + 1>>

\* s.strip()
Strip(s) ==
    LET sp == StripSpan(s, 0, Len(s)) IN Slice(s, sp[1], sp[2])

(***************************************************************************)
(* _split_into_chunks                                                      *)
(***************************************************************************)
\* The sentence endings, in the order the loop tries them.
Puncts == << <<".", " ">>, <<"!", " ">>, <<"?", " ">> >>

\* The for/else over the sentence endings, from the p-th one on: the first
\* ending whose last occurrence in text[st:en] lies after st decides the cut;
\* when none does, the last space after st does; else the window is kept.
RECURSIVE BreakFrom(_, _, _, _)
BreakFrom(s, st, en, p) ==
    IF p > Len(Puncts)
    THEN LET last_space == RFind(s, <<" ">>, st, en)
         IN  IF last_space > st THEN last_space ELSE en
    ELSE LET last_punct == RFind(s, Puncts[p], st, en)
         IN  IF last_punct > st
             THEN last_punct + Len(Puncts[p])
             ELSE BreakFrom(s, st, en, p + 1)

\* A slip in the window: one character too wide.
WindowEndOneTooFar(s, st, size) ==
    LET en == st + size + 1
    IN  IF en < Len(s) THEN BreakFrom(s, st, en, 1) ELSE en

\* The value of `end` when the chunk is sliced.
WindowEnd(s, st, size) ==
    LET en == st + size
    IN  IF en < Len(s) THEN BreakFrom(s, st, en, 1) ELSE en

\* Which branch produced `end`: "tail" (the window reaches the end of the
\* text), "sentence", "space" or "hard" (a cut at exactly start + max_size).
CutKind(s, st, size) ==
    LET en == st + size
    IN  IF en >= Len(s) THEN "tail"
        ELSE IF \E p \in 1..Len(Puncts) : RFind(s, Puncts[p], st, en) > st
             THEN "sentence"
        ELSE IF RFind(s, <<" ">>, st, en) > st THEN "space"
        ELSE "hard"

\* A slip in the advance: the guard max(start + 1, ...) left out.
NextStartNoGuard(st, en, ov) == en - ov

\* A slip in the advance: the next window starts one character late.
NextStartSkipsOne(st, en, ov) == Max(st + 1, en + 1 - ov)

\* A slip in the advance: the overlap is not taken off.
NextStartNoOverlap(st, en, ov) == Max(st + 1, en)

\* start = max(start + 1, end - overlap)
NextStart(st, en, ov) == Max(st + 1, en - ov)

\* if len(text) <= max_size: return [text]
SplitWhole ==
    /\ cpc = "call"
    /\ Len(text) <= max_size
    /\ chunks' = <<text>>
    /\ spans' = << [lo |-> 0, hi |-> Len(text), from |-> 0, to |-> Len(text),
                    cut |-> "whole"] >>
    /\ cpc' = "done"
    /\ UNCHANGED <<text, max_size, overlap, start, iters>>
    /\ UNCHANGED searchVars
    /\ UNCHANGED restVars

\* chunks = []; start = 0, and the first test of the while condition
SplitEnter ==
    /\ cpc = "call"
    /\ Len(text) > max_size
    /\ chunks' = <<>>
    /\ spans' = <<>>
    /\ start' = 0
    /\ cpc' = IF 0 < Len(text) THEN "loop" ELSE "done"
    /\ UNCHANGED <<text, max_size, overlap, iters>>
    /\ UNCHANGED searchVars
    /\ UNCHANGED restVars

\* One iteration of the while loop.
SplitStep ==
    /\ cpc = "loop"
    /\ \E end \in {WindowEnd(text, start, max_size)} :
       \E sp \in {StripSpan(text, start, end)} :
       \E chunk \in {Slice(text, sp[1], sp[2])} :
       \E nxt \in {NextStart(start, end, overlap)} :
           /\ chunks' = IF chunk # <<>> THEN Append(chunks, chunk) ELSE chunks
           /\ spans' = IF chunk # <<>>
                       THEN Append(spans, [lo |-> sp[1], hi |-> sp[2],
                                           from |-> start,
                                           to |-> Min(end, Len(text)),
                                           cut |-> CutKind(text, start, max_size)])
                       ELSE spans
           /\ start' = nxt
           /\ cpc' = IF nxt >= Len(text) THEN "done" ELSE "loop"
    /\ iters' = iters + 1
    /\ UNCHANGED <<text, max_size, overlap>>
    /\ UNCHANGED searchVars
    /\ UNCHANGED restVars

\* No call of _categorize_content is under way.
CatIdle ==
    /\ content = <<>>
    /\ title = <<>>
    /\ category = ""
    /\ kpc = "idle"

\* No call of add_documents has been made.
IngestIdle ==
    /\ documents = <<>>
    /\ on_duplicate = "skip"
    /\ calls = 0
    /\ before = <<>>
    /\ issued = {}
    /\ clashed = {}
    /\ dropped = {}
    /\ raised = "none"
    /\ ipc = "idle"

\* No call of evaluate_search is under way.
EvalIdle ==
    /\ judged = <<>>
    /\ all_precisions = <<>>
    /\ all_recalls = <<>>
    /\ all_avg_precisions = <<>>
    /\ report = [MAP |-> <<0, 1>>, Precision |-> <<0, 1>>, Recall |-> <<0, 1>>]
    /\ epc = "idle"

\* No request is being answered.
AnswerIdle ==
    /\ kb = "ready"
    /\ question = <<>>
    /\ search_results = <<>>
    /\ searches = 0
    /\ context_parts = <<>>
    /\ links = <<>>
    /\ context = <<>>
    /\ answer = <<>>
    /\ status = 0
    /\ apc = "idle"

\* No call of scrape_category_by_date is under way.
ScrapeIdle ==
    /\ page = 0
    /\ consecutive_empty_pages = 0
    /\ all_data = 0
    /\ fetched = <<>>
    /\ rpc = "idle"

\* No call of chunk_content is under way.
DocIdle ==
    /\ doc_text = <<>>
    /\ doc_size = 1
    /\ doc_overlap = 0
    /\ doc_i = 0
    /\ doc_chunks = <<>>
    /\ dpc = "idle"

\* The insertion loop of add_documents is not running.
BatchIdle ==
    /\ all_texts = <<>>
    /\ all_metadatas = <<>>
    /\ all_ids = <<>>
    /\ batch_from = 0
    /\ inserts = <<>>
    /\ bpc = "idle"

MoreIdle == AnswerIdle /\ ScrapeIdle /\ DocIdle /\ BatchIdle

RestIdle == CatIdle /\ IngestIdle /\ EvalIdle /\ MoreIdle

\* No call of hybrid_search is under way, on an empty index.
SearchIdle ==
    /\ collection = <<>>
    /\ down = {}
    /\ distance = <<>>
    /\ query = <<>>
    /\ n_results = 0
    /\ category_filter = "None"
    /\ semantic_weight = 0
    /\ asked = 0
    /\ semantic_results = <<>>
    /\ keyword_results = <<>>
    /\ combined_results = <<>>
    /\ result = [documents |-> <<>>, metadatas |-> <<>>, scores |-> <<>>,
                 semantic_scores |-> <<>>, keyword_scores |-> <<>>]
    /\ spc = "idle"

InitChunk ==
    /\ SearchIdle
    /\ RestIdle
    /\ text \in StringsUpTo(Alphabet, MaxLen)
    /\ max_size \in 1..MaxSize
    /\ overlap \in 0..MaxOverlap
    /\ start = 0
    /\ chunks = <<>>
    /\ spans = <<>>
    /\ iters = 0
    /\ cpc = "call"

NextChunk ==
    \/ SplitWhole
    \/ SplitEnter
    \/ SplitStep

SpecChunk == InitChunk /\ [][NextChunk]_vars

(***************************************************************************)
(* Claims about _split_into_chunks, checked under SpecChunk.               *)
(***************************************************************************)
\* C8: _split_into_chunks terminates for every text, max_size >= 1 and
\* overlap >= 0, overlap >= max_size included: every iteration of the loop
\* moves the window start strictly forward, and the loop runs at most
\* len(text) times.
C8_Progress ==
    [][cpc = "loop" => /\ start' > start
                       /\ iters' = iters + 1
                       /\ iters' <= Len(text)
                       /\ (start' >= Len(text) => cpc' = "done")]_vars

\* A finished run with overlap >= max_size that used all len(text) iterations.
C8_Witness ==
    /\ cpc = "done"
    /\ overlap >= max_size
    /\ Len(text) >= 3
    /\ iters = Len(text)

\* C9, as claimed: every character index of the text lies inside the window
\* [from, to) of at least one emitted chunk.
C9_EveryIndexCovered ==
    cpc = "done" =>
        \A i \in 0..(Len(text) - 1) :
            \E k \in 1..Len(spans) : spans[k].from <= i /\ i < spans[k].to

\* C9, amended: every index of the text that holds a non-whitespace character
\* lies inside the text of at least one emitted chunk.
C9_EveryInkedIndexCovered ==
    cpc = "done" =>
        \A i \in Inked(text) :
            \E k \in 1..Len(spans) : spans[k].lo <= i /\ i < spans[k].hi

\* A finished run of the loop over a text holding whitespace and letters that
\* emitted at least two chunks.
C9_Witness ==
    /\ cpc = "done"
    /\ iters >= 2
    /\ Len(chunks) >= 2
    /\ Inked(text) # {}
    /\ \E i \in 1..Len(text) : text[i] \in Whitespace

\* C10: every emitted chunk is at most max_size characters long, whatever
\* cut produced it (no chunk needs the exception the claim allows).
C10_ChunkSizeBound ==
    \A k \in 1..Len(chunks) : Len(chunks[k]) <= max_size

\* A finished run that made a sentence cut and a hard cut and emitted a chunk
\* exactly max_size long.
C10_Witness ==
    /\ cpc = "done"
    /\ \E k \in 1..Len(spans) : spans[k].cut = "sentence"
    /\ \E k \in 1..Len(spans) : spans[k].cut = "hard"
    /\ \E k \in 1..Len(chunks) : Len(chunks[k]) = max_size

\* C11, as claimed: whatever its content, a text of length L with
\* max_size < L <= 2 * max_size - overlap yields exactly two chunks, the
\* second one starting at or before index max_size - overlap.
C11_TwoChunks ==
    (/\ cpc = "done"
     /\ max_size < Len(text)
     /\ Len(text) <= 2 * max_size - overlap)
        => /\ Len(chunks) = 2
           /\ spans[2].from <= max_size - overlap

\* C11, amended: a text without whitespace of length L with
\* max_size < L <= 2 * (max_size - overlap) yields exactly two chunks: the
\* first max_size characters, and the rest of the text from index
\* max_size - overlap on.
C11_TwoChunksUnbroken ==
    (/\ cpc = "done"
     /\ Inked(text) = 0..(Len(text) - 1)
     /\ max_size < Len(text)
     /\ Len(text) <= 2 * (max_size - overlap))
        => /\ Len(chunks) = 2
           /\ chunks[1] = Slice(text, 0, max_size)
           /\ spans[2].from = max_size - overlap
           /\ chunks[2] = Slice(text, max_size - overlap, Len(text))

\* A finished run over a text without whitespace, with a positive overlap and
\* a length in the range of the claim, that emitted two overlapping chunks.
C11_Witness ==
    /\ cpc = "done"
    /\ Inked(text) = 0..(Len(text) - 1)
    /\ overlap >= 1
    /\ max_size < Len(text)
    /\ Len(text) <= 2 * (max_size - overlap)
    /\ Len(chunks) = 2
    /\ spans[2].from < spans[1].to

\* C12, as claimed: every chunk _split_into_chunks returns, for a text no
\* longer than max_size too, is non-empty and neither starts nor ends with
\* whitespace.
C12_ChunksTrimmed ==
    cpc = "done" =>
        \A k \in 1..Len(chunks) :
            /\ chunks[k] # <<>>
            /\ chunks[k][1] \notin Whitespace
            /\ chunks[k][Len(chunks[k])] \notin Whitespace

\* C12, amended: every chunk the loop emits (the text is longer than
\* max_size) is non-empty and neither starts nor ends with whitespace; a text
\* no longer than max_size comes back as the only chunk, exactly as it is.
C12_LoopChunksTrimmed ==
    /\ \A k \in 1..Len(chunks) :
           spans[k].cut # "whole" =>
               /\ chunks[k] # <<>>
               /\ chunks[k][1] \notin Whitespace
               /\ chunks[k][Len(chunks[k])] \notin Whitespace
    /\ (cpc = "done" /\ Len(text) <= max_size) => chunks = <<text>>

\* A finished run of the loop in which the trimming took whitespace off a
\* chunk and a window of whitespace alone was dropped.
C12_Witness ==
    /\ cpc = "done"
    /\ Len(text) > max_size
    /\ \E k \in 1..Len(spans) :
           spans[k].lo > spans[k].from \/ spans[k].hi < spans[k].to
    /\ Len(chunks) >= 1
    /\ Len(chunks) < iters

(***************************************************************************)
(* The index and the backend (self.collection, a ChromaDB collection).     *)
(***************************************************************************)
\* Python's None, and the truth value `if category_filter:` tests.
None == "None"

Truthy(f) == f # None /\ f # ""

\* The fixed-point unit: the number that stands for 1.0.
One == 10

\* keyword_score = min(score / 10.0, 1.0): the divisor
KeywordDivisor == 10

\* semantic_weight: float = 0.7
DefaultWeight == 7

\* The values the model draws from.
DocIds == {0, 1}

Cats == {"exam", "general"}

Texts == { <<"a", "A", "a", "a">>, <<"a", "b">> }

Queries == { <<"a", " ", "A">>, <<"b">>, <<"a", " ", " ", "a", " ", "a">> }

\* No filter, a category of the index, the empty string, an unknown name.
Filters == {None, "exam", "", "quiz"}

Weights == {0, 7, One}

Dists == {0, 1, 15}

Retrievers == {"semantic", "keyword"}

\* The entry add_documents stores for chunk j of document i of a batch.
Entry(i, j, chunk, cat) ==
    [id |-> <<"doc", i, "chunk", j>>,
     document |-> chunk,
     metadata |-> [source_doc_id |-> i, chunk_id |-> j, category |-> cat]]

\* The index after add_documents: the chunks of a batch in document order,
\* chunk j of a document being its j-th chunk; a document may have no chunk.
CollectionOf(g) ==
    [n \in 1..Len(g) |->
        Entry(g[n][1],
              Cardinality({m \in 1..(n - 1) : g[m][1] = g[n][1]}),
              g[n][2], g[n][3])]

Collections ==
    UNION { { CollectionOf(g) :
                g \in { h \in [1..m -> DocIds \X Texts \X Cats] :
                          \A a, b \in 1..m : a < b => h[a][1] <= h[b][1] } } :
            m \in 0..MaxChunks }

\* The texts stored in the index.
StoredTexts(coll) == {coll[n].document : n \in 1..Len(coll)}

\* seq[:n]
Take(seq, n) == SubSeq(seq, 1, Min(Max(n, 0), Len(seq)))

\* A slip in the where-clause: when no entry matches, all are kept.
WhereElseAll(coll, f) ==
    LET kept == SelectSeq(coll, LAMBDA e : e.metadata.category = f)
    IN  IF kept = <<>> THEN coll ELSE kept

\* The subsequence of the entries a where-clause on category keeps.
RECURSIVE Where(_, _)
Where(coll, f) ==
    IF coll = <<>> THEN <<>>
    ELSE LET rest == Where(Tail(coll), f)
         IN  IF Head(coll).metadata.category = f THEN <<Head(coll)>> \o rest
             ELSE rest

\* A slip: the filter is never handed to the backend.
GetUnfiltered(coll, f) == coll

\* collection.get(...): the entries, all or those of one category.
Get(coll, f) == IF Truthy(f) THEN Where(coll, f) ELSE coll

\* x put into a list sorted by ascending distance, after its equals.
RECURSIVE InsertByDistance(_, _)
InsertByDistance(x, sorted) ==
    IF sorted = <<>> THEN <<x>>
    ELSE IF Head(sorted).distance <= x.distance
         THEN <<Head(sorted)>> \o InsertByDistance(x, Tail(sorted))
         ELSE <<x>> \o sorted

RECURSIVE NearestFirst(_)
NearestFirst(seq) ==
    IF seq = <<>> THEN <<>>
    ELSE InsertByDistance(seq[Len(seq)], NearestFirst(SubSeq(seq, 1, Len(seq) - 1)))

\* collection.query(query_texts, n_results = n, where): the n nearest of the
\* entries the where-clause keeps, nearest first, dist giving the distance
\* of each stored text from the query.
Query(coll, dist, n, f) ==
    LET kept == Get(coll, f)
        hits == [m \in 1..Len(kept) |->
                    [document |-> kept[m].document,
                     metadata |-> kept[m].metadata,
                     distance |-> dist[kept[m].document]]]
    IN  Take(NearestFirst(hits), n)

(***************************************************************************)
(* semantic_search                                                         *)
(***************************************************************************)
\* What a retriever hands back: the zipped result lists, or an exception that
\* left it; `asked` is the n_results it gave collection.query (0: no query).
Hits(n, hits) == [raised |-> FALSE, asked |-> n, hits |-> hits]

Raised == [raised |-> TRUE, asked |-> 0, hits |-> <<>>]

\* A slip: the try/except left out, so a backend failure leaves the function.
SemanticSearchUncaught(coll, dist, dn, n, f) ==
    IF "semantic" \in dn THEN Raised
    ELSE LET n_asked == Min(n, Len(coll))
         IN  IF n_asked <= 0 THEN Raised
             ELSE Hits(n_asked, Query(coll, dist, n_asked, f))

\* A slip: n_results handed to the backend as it came.
SemanticSearchUnclamped(coll, dist, dn, n, f) ==
    IF "semantic" \in dn THEN Hits(0, <<>>)
    ELSE IF n <= 0 THEN Hits(n, <<>>) ELSE Hits(n, Query(coll, dist, n, f))

\* The backend raising (the index unreachable, or n_results = 0 refused) is
\* caught by the except clause and answered by empty lists.
SemanticSearch(coll, dist, dn, n, f) ==
    IF "semantic" \in dn THEN Hits(0, <<>>)
    ELSE LET n_asked == Min(n, Len(coll))
         IN  IF n_asked <= 0 THEN Hits(n_asked, <<>>)
             ELSE Hits(n_asked, Query(coll, dist, n_asked, f))

(***************************************************************************)
(* keyword_search                                                          *)
(***************************************************************************)
\* str.lower() on the characters of the model
Uppercase ==
    << "A", "B", "C", "D", "E", "F", "G", "H", "I", "J", "K", "L", "M", "N",
       "O", "P", "Q", "R", "S", "T", "U", "V", "W", "X", "Y", "Z" >>

Lowercase ==
    << "a", "b", "c", "d", "e", "f", "g", "h", "i", "j", "k", "l", "m", "n",
       "o", "p", "q", "r", "s", "t", "u", "v", "w", "x", "y", "z" >>

LowerChar(c) ==
    IF \E n \in 1..Len(Uppercase) : Uppercase[n] = c
    THEN Lowercase[CHOOSE n \in 1..Len(Uppercase) : Uppercase[n] = c]
    ELSE c

Lower(s) == [i \in 1..Len(s) |-> LowerChar(s[i])]

\* str.split(): the maximal runs of non-whitespace characters
RECURSIVE SplitFrom(_, _, _)
SplitFrom(s, i, word) ==
    IF i > Len(s) THEN (IF word = <<>> THEN <<>> ELSE <<word>>)
    ELSE IF s[i] \in Whitespace
         THEN (IF word = <<>> THEN <<>> ELSE <<word>>) \o SplitFrom(s, i + 1, <<>>)
         ELSE SplitFrom(s, i + 1, Append(word, s[i]))

Split(s) == SplitFrom(s, 1, <<>>)

\* str.count(sub): the non-overlapping occurrences of sub from index i on
RECURSIVE CountFrom(_, _, _)
CountFrom(s, sub, i) ==
    IF i + Len(sub) > Len(s) THEN 0
    ELSE IF OccursAt(s, sub, i) THEN 1 + CountFrom(s, sub, i + Len(sub))
         ELSE CountFrom(s, sub, i + 1)

Count(s, sub) == CountFrom(s, sub, 0)

\* sum(doc_lower.count(word) for word in query_words)
RECURSIVE SumCounts(_, _)
SumCounts(doc_lower, words) ==
    IF words = <<>> THEN 0
    ELSE Count(doc_lower, Head(words)) + SumCounts(doc_lower, Tail(words))

KeywordCount(doc, q) == SumCounts(Lower(doc), Split(Lower(q)))

\* x put into a list sorted by descending score, after its equals.
RECURSIVE InsertByScore(_, _)
InsertByScore(x, sorted) ==
    IF sorted = <<>> THEN <<x>>
    ELSE IF Head(sorted).score >= x.score
         THEN <<Head(sorted)>> \o InsertByScore(x, Tail(sorted))
         ELSE <<x>> \o sorted

\* A slip in the sort: equal scores come out in reverse scan order.
RECURSIVE SortByScoreTiesReversed(_)
SortByScoreTiesReversed(seq) ==
    IF seq = <<>> THEN <<>>
    ELSE InsertByScore(Head(seq), SortByScoreTiesReversed(Tail(seq)))

\* list.sort(key = score, reverse = True): stable
RECURSIVE SortByScore(_)
SortByScore(seq) ==
    IF seq = <<>> THEN <<>>
    ELSE InsertByScore(seq[Len(seq)], SortByScore(SubSeq(seq, 1, Len(seq) - 1)))

\* The scan: the entries with a positive score, in scan order.
RECURSIVE ScoredDocs(_, _)
ScoredDocs(docs, q) ==
    IF docs = <<>> THEN <<>>
    ELSE LET score == KeywordCount(Head(docs).document, q)
             rest == ScoredDocs(Tail(docs), q)
         IN  IF score > 0
             THEN <<[document |-> Head(docs).document,
                     metadata |-> Head(docs).metadata,
                     id |-> Head(docs).id,
                     score |-> score]>> \o rest
             ELSE rest

\* A backend failure is caught by the except clause and answered by empty
\* lists.
KeywordSearch(coll, dn, q, n, f) ==
    IF "keyword" \in dn THEN Hits(0, <<>>)
    ELSE Hits(0, Take(SortByScore(ScoredDocs(Get(coll, f), q)), n))

(***************************************************************************)
(* hybrid_search                                                           *)
(***************************************************************************)
\* A slip: the distance not capped at 1.0.
SemanticScoreNoCap(dist) == One - dist

\* semantic_score = 1.0 - min(dist, 1.0)
SemanticScore(dist) == One - Min(dist, One)

\* A slip: the keyword score not capped at 1.0.
KeywordScoreNoCap(score) == (score * One) \div KeywordDivisor

\* keyword_score = min(score / 10.0, 1.0)
KeywordScore(score) == Min((score * One) \div KeywordDivisor, One)

\* semantic_score * semantic_weight + keyword_score * (1.0 - semantic_weight),
\* in units of 1/(One * One)
FinalScore(sem, kw, w) == sem * w + kw * (One - w)

\* The position of key in the dict (kept in insertion order), or 0.
KeyIndex(combined, key) ==
    IF \E n \in 1..Len(combined) : combined[n].key = key
    THEN CHOOSE n \in 1..Len(combined) : combined[n].key = key
    ELSE 0

\* combined_results[doc_id] = {...} for one semantic hit
PutSemantic(combined, hit, w) ==
    LET doc_id == hit.metadata.source_doc_id
        semantic_score == SemanticScore(hit.distance)
        rec == [key |-> doc_id,
                document |-> hit.document,
                metadata |-> hit.metadata,
                semantic_score |-> semantic_score,
                keyword_score |-> 0,
                final_score |-> semantic_score * w]
        at == KeyIndex(combined, doc_id)
    IN  IF at > 0 THEN [combined EXCEPT ![at] = rec] ELSE Append(combined, rec)

\* A slip: a keyword hit always makes a record of its own.
PutKeywordAlwaysNew(combined, hit, w) ==
    Append(combined,
           [key |-> hit.metadata.source_doc_id,
            document |-> hit.document,
            metadata |-> hit.metadata,
            semantic_score |-> 0,
            keyword_score |-> KeywordScore(hit.score),
            final_score |-> KeywordScore(hit.score) * (One - w)])

\* A slip: a keyword hit on a document without a semantic hit is dropped.
PutKeywordMergeOnly(combined, hit, w) ==
    LET at == KeyIndex(combined, hit.metadata.source_doc_id)
    IN  IF at > 0
        THEN [combined EXCEPT
                ![at].keyword_score = KeywordScore(hit.score),
                ![at].final_score =
                    FinalScore(combined[at].semantic_score,
                               KeywordScore(hit.score), w)]
        ELSE combined

\* The if/else for one keyword hit
PutKeyword(combined, hit, w) ==
    LET doc_id == hit.metadata.source_doc_id
        keyword_score == KeywordScore(hit.score)
        at == KeyIndex(combined, doc_id)
    IN  IF at > 0
        THEN [combined EXCEPT
                ![at].keyword_score = keyword_score,
                ![at].final_score =
                    FinalScore(combined[at].semantic_score, keyword_score, w)]
        ELSE Append(combined,
                    [key |-> doc_id,
                     document |-> hit.document,
                     metadata |-> hit.metadata,
                     semantic_score |-> 0,
                     keyword_score |-> keyword_score,
                     final_score |-> keyword_score * (One - w)])

\* The two loops over the result lists
RECURSIVE AddSemantic(_, _, _)
AddSemantic(combined, hits, w) ==
    IF hits = <<>> THEN combined
    ELSE AddSemantic(PutSemantic(combined, Head(hits), w), Tail(hits), w)

RECURSIVE AddKeyword(_, _, _)
AddKeyword(combined, hits, w) ==
    IF hits = <<>> THEN combined
    ELSE AddKeyword(PutKeyword(combined, Head(hits), w), Tail(hits), w)

Combine(sem, kw, w) == AddKeyword(AddSemantic(<<>>, sem, w), kw, w)

\* x put into a list sorted by descending final score, after its equals.
RECURSIVE InsertByFinal(_, _)
InsertByFinal(x, sorted) ==
    IF sorted = <<>> THEN <<x>>
    ELSE IF Head(sorted).final_score >= x.final_score
         THEN <<Head(sorted)>> \o InsertByFinal(x, Tail(sorted))
         ELSE <<x>> \o sorted

\* sorted(combined_results.values(), key = final_score, reverse = True): stable
RECURSIVE SortByFinal(_)
SortByFinal(seq) ==
    IF seq = <<>> THEN <<>>
    ELSE InsertByFinal(seq[Len(seq)], SortByFinal(SubSeq(seq, 1, Len(seq) - 1)))

\* A slip: the records cut to n_results without being sorted.
TopResultsUnsorted(combined, k) == Take(combined, k)

\* sorted(...)[:n_results]
TopResults(combined, k) == Take(SortByFinal(combined), k)

\* The dict of parallel lists hybrid_search returns
Returned(top) ==
    [documents |-> [n \in 1..Len(top) |-> top[n].document],
     metadatas |-> [n \in 1..Len(top) |-> top[n].metadata],
     scores |-> [n \in 1..Len(top) |-> top[n].final_score],
     semantic_scores |-> [n \in 1..Len(top) |-> top[n].semantic_score],
     keyword_scores |-> [n \in 1..Len(top) |-> top[n].keyword_score]]

\* The whole of hybrid_search(q, k, f, w), against a backend that fails for
\* the retrievers in dn and puts the stored texts at the distances dist.
Hybrid(op, q, k, f, w, dn, dist) ==
    \E sem \in {SemanticSearch(collection, dist, dn, k * 2, f)} :
    \E kw \in {IF sem.raised THEN Raised
                ELSE KeywordSearch(collection, dn, q, k * 2, f)} :
    \E thrown \in {sem.raised \/ kw.raised} :
    \E combined \in {IF thrown THEN <<>> ELSE Combine(sem.hits, kw.hits, w)} :
        /\ query' = q
        /\ n_results' = k
        /\ category_filter' = f
        /\ semantic_weight' = w
        /\ down' = dn
        /\ distance' = dist
        /\ asked' = sem.asked
        /\ semantic_results' = sem.hits
        /\ keyword_results' = kw.hits
        /\ combined_results' = combined
        /\ result' = Returned(TopResults(combined, k))
        /\ spc' = IF thrown THEN "raised" ELSE op
        /\ UNCHANGED collection
        /\ UNCHANGED chunkVars

HybridSearch ==
    /\ spc = "idle"
    /\ \E q \in Queries, k \in 1..MaxK, f \in Filters, w \in Weights,
          dn \in SUBSET Retrievers, dist \in [StoredTexts(collection) -> Dists] :
            Hybrid("hybrid_search", q, k, f, w, dn, dist)
    /\ UNCHANGED restVars

\* search(query, n_results): hybrid_search with its defaults
Search ==
    /\ spc = "idle"
    /\ \E q \in Queries, k \in 1..MaxK,
          dn \in SUBSET Retrievers, dist \in [StoredTexts(collection) -> Dists] :
            Hybrid("search", q, k, None, DefaultWeight, dn, dist)
    /\ UNCHANGED restVars

\* _split_into_chunks is not running.
ChunkIdle ==
    /\ text = <<>>
    /\ max_size = 1
    /\ overlap = 0
    /\ start = 0
    /\ chunks = <<>>
    /\ spans = <<>>
    /\ iters = 0
    /\ cpc = "idle"

InitSearch ==
    /\ ChunkIdle
    /\ RestIdle
    /\ collection \in Collections
    /\ down = {}
    /\ distance = <<>>
    /\ query = <<>>
    /\ n_results = 0
    /\ category_filter = None
    /\ semantic_weight = 0
    /\ asked = 0
    /\ semantic_results = <<>>
    /\ keyword_results = <<>>
    /\ combined_results = <<>>
    /\ result = Returned(<<>>)
    /\ spc = "idle"

NextSearch ==
    \/ HybridSearch
    \/ Search

SpecSearch == InitSearch /\ [][NextSearch]_vars

(***************************************************************************)
(* Claims about hybrid_search and search, checked under SpecSearch.        *)
(***************************************************************************)
\* A call has returned its result.
HasReturned == spc \in {"hybrid_search", "search"}

\* The source documents of the hits of a list, and the hits of one document.
DocsOf(hits) == {hits[n].metadata.source_doc_id : n \in 1..Len(hits)}

HitsOf(hits, d) == {n \in 1..Len(hits) : hits[n].metadata.source_doc_id = d}

\* The positions of the returned lists that hold document d.
ReturnedAt(d) ==
    {n \in 1..Len(result.metadatas) : result.metadatas[n].source_doc_id = d}

\* C1: no two entries of the returned list carry the same source_doc_id, and
\* a document hit by both retrievers has exactly one fused record (exactly one
\* returned entry when nothing is cut off).
C1_NoDuplicateSource ==
    HasReturned =>
        /\ \A a, b \in 1..Len(result.metadatas) :
              a # b => result.metadatas[a].source_doc_id
                          # result.metadatas[b].source_doc_id
        /\ \A d \in DocsOf(semantic_results) \cap DocsOf(keyword_results) :
              /\ Cardinality(HitsOf(combined_results, d)) = 1
              /\ Cardinality(ReturnedAt(d)) <= 1
              /\ Len(combined_results) <= n_results
                    => Cardinality(ReturnedAt(d)) = 1

\* A returned call in which two chunks of one document were semantic hits,
\* the document was a keyword hit too, and it is in the result.
C1_Witness ==
    /\ HasReturned
    /\ \E d \in DocsOf(semantic_results) \cap DocsOf(keyword_results) :
          /\ Cardinality(HitsOf(semantic_results, d)) >= 2
          /\ ReturnedAt(d) # {}

\* C2: every returned entry has final score
\* semantic_score * w + keyword_score * (1 - w), its keyword_score is
\* min(count / 10, 1) for a raw count of a keyword hit on its document, a
\* signal that did not hit the document is 0, and semantic score 0.9 with
\* raw count 8 and w = 0.7 gives 0.87.
C2_FusedScore ==
    HasReturned =>
        \A n \in 1..Len(result.scores) :
            LET d == result.metadatas[n].source_doc_id
                sem == result.semantic_scores[n]
                kw == result.keyword_scores[n]
                w == semantic_weight
            IN  /\ result.scores[n] = sem * w + kw * (One - w)
                /\ IF d \in DocsOf(keyword_results)
                   THEN \E h \in HitsOf(keyword_results, d) :
                          kw * KeywordDivisor
                            = One * Min(keyword_results[h].score, KeywordDivisor)
                   ELSE kw = 0
                /\ d \notin DocsOf(semantic_results) => sem = 0
                /\ ( /\ sem * 10 = 9 * One
                     /\ kw * 10 = 8 * One
                     /\ w * 10 = 7 * One )
                   => result.scores[n] * 100 = 87 * One * One

\* A returned entry with semantic score 0.9 and raw keyword count 8, fused
\* with w = 0.7 into 0.87.
C2_Witness ==
    /\ HasReturned
    /\ semantic_weight * 10 = 7 * One
    /\ \E n \in 1..Len(result.scores) :
          /\ result.semantic_scores[n] * 10 = 9 * One
          /\ \E h \in HitsOf(keyword_results, result.metadatas[n].source_doc_id) :
                keyword_results[h].score = 8
          /\ result.keyword_scores[n] * 10 = 8 * One
          /\ result.scores[n] * 100 = 87 * One * One

\* C3: for a weight in [0,1], every returned entry has a semantic score
\* 1 - min(d, 1) in [0,1] for the distance d of a semantic hit on its
\* document (0 when d >= 1), a keyword score in [0,1] and a final score in
\* [0,1].
C3_ScoresInUnitInterval ==
    (HasReturned /\ semantic_weight \in 0..One) =>
        \A n \in 1..Len(result.scores) :
            LET d == result.metadatas[n].source_doc_id
                sem == result.semantic_scores[n]
            IN  /\ sem \in 0..One
                /\ result.keyword_scores[n] \in 0..One
                /\ result.scores[n] \in 0..(One * One)
                /\ d \in DocsOf(semantic_results) =>
                      \E h \in HitsOf(semantic_results, d) :
                          LET dist == semantic_results[h].distance
                          IN  /\ sem = One - Min(dist, One)
                              /\ dist >= One => sem = 0

\* A returned entry whose semantic hit lies farther than 1 and whose raw
\* keyword count is above 10.
C3_Witness ==
    /\ HasReturned
    /\ \E n \in 1..Len(result.scores) :
          LET d == result.metadatas[n].source_doc_id
          IN  /\ \E h \in HitsOf(semantic_results, d) :
                    semantic_results[h].distance > One
              /\ result.semantic_scores[n] = 0
              /\ \E h \in HitsOf(keyword_results, d) :
                    keyword_results[h].score > KeywordDivisor
              /\ result.keyword_scores[n] = One

\* C4: hybrid_search(n_results = k) returns min(k, number of fused records)
\* entries, in non-increasing order of final score; no fused record left out
\* has a higher final score than a returned one; the five lists have one
\* length and position n of each belongs to the same fused record.
C4_TopKSorted ==
    HasReturned =>
        LET len == Len(result.scores)
        IN  /\ len = Min(n_results, Len(combined_results))
            /\ Len(result.documents) = len
            /\ Len(result.metadatas) = len
            /\ Len(result.semantic_scores) = len
            /\ Len(result.keyword_scores) = len
            /\ \A n \in 1..(len - 1) : result.scores[n] >= result.scores[n + 1]
            /\ \A n \in 1..len :
                  \E m \in 1..Len(combined_results) :
                      /\ combined_results[m].metadata = result.metadatas[n]
                      /\ combined_results[m].document = result.documents[n]
                      /\ combined_results[m].final_score = result.scores[n]
                      /\ combined_results[m].semantic_score
                            = result.semantic_scores[n]
                      /\ combined_results[m].keyword_score
                            = result.keyword_scores[n]
            /\ \A m \in 1..Len(combined_results) :
                  ReturnedAt(combined_results[m].key) = {} =>
                      \A n \in 1..len :
                          combined_results[m].final_score <= result.scores[n]

\* A returned call that cut the fused records to k and kept a record that
\* was not the first one fused, for its strictly higher score.
C4_Witness ==
    /\ HasReturned
    /\ Len(combined_results) > n_results
    /\ Len(result.scores) = n_results
    /\ combined_results[1].final_score < result.scores[1]
    /\ ReturnedAt(combined_results[1].key) = {}

\* C5: a document in only one retriever's list has a fused record scored on
\* that signal times its weight, and when the distinct documents of both
\* lists number at most k, each of them is returned.
C5_SingleSignalSurvives ==
    HasReturned =>
        LET S == DocsOf(semantic_results)
            K == DocsOf(keyword_results)
            w == semantic_weight
        IN  /\ \A d \in S \ K :
                  \E m \in HitsOf(combined_results, d) :
                      /\ combined_results[m].keyword_score = 0
                      /\ combined_results[m].final_score
                            = combined_results[m].semantic_score * w
                      /\ \E h \in HitsOf(semantic_results, d) :
                            combined_results[m].semantic_score
                              = One - Min(semantic_results[h].distance, One)
            /\ \A d \in K \ S :
                  \E m \in HitsOf(combined_results, d) :
                      /\ combined_results[m].semantic_score = 0
                      /\ combined_results[m].final_score
                            = combined_results[m].keyword_score * (One - w)
                      /\ \E h \in HitsOf(keyword_results, d) :
                            combined_results[m].keyword_score * KeywordDivisor
                              = One * Min(keyword_results[h].score, KeywordDivisor)
            /\ Cardinality(S \cup K) <= n_results =>
                  \A d \in S \cup K : ReturnedAt(d) # {}

\* A returned call, the backend sound, with one document found by the
\* semantic retriever only and one found by the keyword retriever too, both
\* returned, the first with a positive score.
C5_Witness ==
    /\ HasReturned
    /\ down = {}
    /\ \E d \in DocsOf(semantic_results) \ DocsOf(keyword_results) :
          \E n \in ReturnedAt(d) :
              /\ result.scores[n] > 0
              /\ result.keyword_scores[n] = 0
    /\ \E d \in DocsOf(keyword_results) : ReturnedAt(d) # {}

\* The result of fusing the lists sem and kw of the call at hand.
FusionOf(sem, kw) ==
    Returned(TopResults(Combine(sem, kw, semantic_weight), n_results))

\* C6: a backend failure in one retriever never leaves hybrid_search as an
\* exception and never blocks the other retriever: with semantic_search
\* failing the result is the fusion of the keyword results alone, with
\* keyword_search failing the fusion of the semantic results alone, with both
\* failing the empty lists.
C6_FailureAbsorbed ==
    /\ spc # "raised"
    /\ HasReturned =>
        LET sem_alone == SemanticSearch(collection, distance, {},
                                        n_results * 2, category_filter).hits
            kw_alone == KeywordSearch(collection, {}, query,
                                      n_results * 2, category_filter).hits
        IN  /\ ("semantic" \in down /\ "keyword" \notin down) =>
                  /\ keyword_results = kw_alone
                  /\ result = FusionOf(<<>>, kw_alone)
            /\ ("keyword" \in down /\ "semantic" \notin down) =>
                  /\ semantic_results = sem_alone
                  /\ result = FusionOf(sem_alone, <<>>)
            /\ down = Retrievers => result = Returned(<<>>)

\* A returned call during which the backend failed semantic_search and the
\* keyword results alone made a non-empty result.
C6_Witness ==
    /\ HasReturned
    /\ down = {"semantic"}
    /\ semantic_results = <<>>
    /\ Len(result.scores) >= 1
    /\ \A n \in 1..Len(result.scores) : result.keyword_scores[n] > 0

\* C7: on an empty index search and hybrid_search return empty lists and do
\* not raise; semantic_search asks the backend for min(n_results, count())
\* neighbours and returns no more entries than the index holds.
C7_EmptyIndexAndClamp ==
    spc # "idle" =>
        /\ Len(collection) = 0 =>
              /\ HasReturned
              /\ result = [documents |-> <<>>, metadatas |-> <<>>,
                           scores |-> <<>>, semantic_scores |-> <<>>,
                           keyword_scores |-> <<>>]
        /\ "semantic" \notin down =>
              asked = Min(n_results * 2, Len(collection))
        /\ asked <= Len(collection)
        /\ Len(semantic_results) <= asked

\* search returned on an empty index, the backend sound.
C7_Witness ==
    /\ spc = "search"
    /\ Len(collection) = 0
    /\ down = {}
    /\ result.documents = <<>>

\* The categories of the entries of a list of hits or of metadatas.
CategoriesOf(hits) == {hits[n].metadata.category : n \in 1..Len(hits)}

ReturnedCategories ==
    {result.metadatas[n].category : n \in 1..Len(result.metadatas)}

MaxWords == 2

\* sub in s
Contains(s, sub) == \E i \in 0..(Len(s) - Len(sub)) : OccursAt(s, sub, i)

\* The dict `categories`, in the order of its keys.
Categories ==
    << [name |-> "assignment",
        keywords |-> << <<"a", "s", "s", "i", "g", "n", "m", "e", "n", "t">>,
                        <<"h", "o", "m", "e", "w", "o", "r", "k">>,
                        <<"g", "a", "1">>, <<"g", "a", "2">>,
                        <<"g", "a", "3">>, <<"g", "a", "4">>,
                        <<"g", "a", "5">>, <<"g", "a", "6">>,
                        <<"g", "a", "7">>,
                        <<"p", "r", "o", "j", "e", "c", "t">>,
                        <<"p", "r", "o", "j", "e", "c", "t", " ", "1">>,
                        <<"p", "r", "o", "j", "e", "c", "t", " ", "2">> >>],
       [name |-> "exam",
        keywords |-> << <<"e", "x", "a", "m">>, <<"t", "e", "s", "t">>,
                        <<"f", "i", "n", "a", "l">>, <<"r", "o", "e">> >>],
       [name |-> "technical",
        keywords |-> << <<"c", "o", "d", "e">>, <<"e", "r", "r", "o", "r">>,
                        <<"p", "y", "t", "h", "o", "n">>, <<"a", "p", "i">>,
                        <<"d", "e", "b", "u", "g">> >>],
       [name |-> "course",
        keywords |-> << <<"c", "o", "u", "r", "s", "e">>,
                        <<"s", "y", "l", "l", "a", "b", "u", "s">>,
                        <<"s", "c", "h", "e", "d", "u", "l", "e">>,
                        <<"d", "e", "a", "d", "l", "i", "n", "e">> >>],
       [name |-> "general", keywords |-> <<>>] >>

\* A slip in the loop: the last category with a keyword in the text wins.
RECURSIVE CategoryFromLast(_, _)
CategoryFromLast(s, c) ==
    IF c > Len(Categories) THEN "general"
    ELSE LET later == CategoryFromLast(s, c + 1)
         IN  IF /\ later = "general"
                /\ \E k \in 1..Len(Categories[c].keywords) :
                       Contains(s, Categories[c].keywords[k])
             THEN Categories[c].name
             ELSE later

\* The loop over categories.items(), from the c-th category on, and the
\* return after it.
RECURSIVE CategoryFrom(_, _)
CategoryFrom(s, c) ==
    IF c > Len(Categories) THEN "general"
    ELSE IF \E k \in 1..Len(Categories[c].keywords) :
                Contains(s, Categories[c].keywords[k])
         THEN Categories[c].name
         ELSE CategoryFrom(s, c + 1)

\* _categorize_content(content, title)
Categorize(cont, ttl) == CategoryFrom(Lower(cont \o <<" ">> \o ttl), 1)

\* The words contents are made of, the titles, and the content of the
\* specification's example.
Words ==
    { <<"A", "s", "s", "i", "g", "n", "m", "e", "n", "t">>, <<"3">>,
      <<"d", "e", "a", "d", "l", "i", "n", "e">>,
      <<"e", "x", "t", "e", "n", "d", "e", "d">>,
      <<"l", "a", "t", "e", "s", "t">>, <<"P", "y", "t", "h", "o", "n">>,
      <<"h", "e", "l", "l", "o">>, <<"G", "A", "4">>,
      <<"s", "y", "l", "l", "a", "b", "u", "s">> }

Titles ==
    { <<>>, <<"E", "x", "a", "m">>, <<"h", "e", "l", "l", "o">>,
      <<"P", "r", "o", "j", "e", "c", "t", " ", "1">> }

AssignmentNotice ==
    <<"A", "s", "s", "i", "g", "n", "m", "e", "n", "t", " ", "3", " ", "d", "e", "a", "d", "l", "i", "n", "e", " ", "e", "x", "t", "e", "n", "d", "e", "d">>

\* The words of ws joined by single spaces.
RECURSIVE Join(_)
Join(ws) ==
    IF ws = <<>> THEN <<>>
    ELSE IF Len(ws) = 1 THEN ws[1]
    ELSE ws[1] \o <<" ">> \o Join(Tail(ws))

Contents ==
    {Join(ws) : ws \in StringsUpTo(Words, MaxWords)} \cup {AssignmentNotice}

\* The call and the return of _categorize_content.
CategorizeContent ==
    /\ kpc = "call"
    /\ category' = Categorize(content, title)
    /\ kpc' = "done"
    /\ UNCHANGED <<content, title>>
    /\ UNCHANGED <<chunkVars, searchVars, ingestVars, evalVars, moreVars>>

InitCategorize ==
    /\ ChunkIdle
    /\ SearchIdle
    /\ IngestIdle
    /\ EvalIdle
    /\ MoreIdle
    /\ content \in Contents
    /\ title \in Titles
    /\ category = ""
    /\ kpc = "call"

NextCategorize == CategorizeContent

SpecCategorize == InitCategorize /\ [][NextCategorize]_vars

(***************************************************************************)
(* Claims about _categorize_content, checked under SpecCategorize.         *)
(***************************************************************************)
\* Whether a keyword of the c-th category occurs in the lowercased
\* concatenation of the content, a space and the title.
KeywordOf(c) ==
    \E k \in 1..Len(Categories[c].keywords) :
        Contains(Lower(content \o <<" ">> \o title), Categories[c].keywords[k])

\* C13: _categorize_content returns one of assignment, exam, technical,
\* course, general: the first of them, in that order, one of whose keywords
\* occurs in the lowercased chunk and title, and general when none does;
\* "Assignment 3 deadline extended" with an empty title gives assignment.
C13_FirstCategoryWins ==
    kpc = "done" =>
        /\ category \in {"assignment", "exam", "technical", "course", "general"}
        /\ \A c \in 1..Len(Categories) :
               (KeywordOf(c) /\ \A b \in 1..(c - 1) : ~KeywordOf(b))
                   => category = Categories[c].name
        /\ (\A c \in 1..Len(Categories) : ~KeywordOf(c)) => category = "general"
        /\ (content = AssignmentNotice /\ title = <<>>)
               => category = "assignment"

\* The call of the example has returned assignment, although the content
\* holds a keyword of course too.
C13_Witness ==
    /\ kpc = "done"
    /\ content = AssignmentNotice
    /\ title = <<>>
    /\ KeywordOf(1)
    /\ KeywordOf(4)
    /\ category = "assignment"

(***************************************************************************)
(* add_documents                                                           *)
(***************************************************************************)
\* The most documents of a batch, and the most calls of add_documents.
MaxDocs == 2
MaxCalls == 2

\* if len(content) < 20
MinContentLength == 20

\* self._split_into_chunks(content, max_size=1024, overlap=250)
ChunkMaxSize == 1024
ChunkOverlap == 250

\* max_batch_size = 5000
MaxBatchSize == 5000

\* The while loop of _split_into_chunks from start st on, acc being chunks.
RECURSIVE SplitLoop(_, _, _, _, _)
SplitLoop(s, size, ov, st, acc) ==
    IF st >= Len(s) THEN acc
    ELSE LET en == WindowEnd(s, st, size)
             sp == StripSpan(s, st, en)
             chunk == Slice(s, sp[1], sp[2])
         IN  SplitLoop(s, size, ov, NextStart(st, en, ov),
                       IF chunk # <<>> THEN Append(acc, chunk) ELSE acc)

\* _split_into_chunks(text, max_size, overlap), as a function of its input
SplitIntoChunks(s, size, ov) ==
    IF Len(s) <= size THEN <<s>> ELSE SplitLoop(s, size, ov, 0, <<>>)

\* The contents the documents drawn hold: one of 9 characters once stripped,
\* one of exactly 20 characters, and one longer than a chunk.
ShortContent ==
    <<" ", " ", "t", "o", "o", " ", "s", "h", "o", "r", "t", " ", " ">>

NoticeContent ==
    <<"a", "s", "s", "i", "g", "n", "m", "e", "n", "t", " ", "1", " ", "i", "s", " ", "d", "u", "e", ".">>

LongLength == 1030

LongContent == [n \in 1..LongLength |-> "x"]

DocContents == {ShortContent, NoticeContent, LongContent}

\* The documents drawn: without the key 'content', with content None, and
\* with a string as content. No document has a title.
Docs ==
    {[content_is |-> "absent", content |-> <<>>],
     [content_is |-> "None", content |-> <<>>]}
        \cup {[content_is |-> "str", content |-> c] : c \in DocContents}

Batches == StringsUpTo(Docs, MaxDocs)

\* The chunks of a content with their categories, computed once for each
\* content drawn: chunks = self._split_into_chunks(content, ...), and
\* self._categorize_content(chunk, doc.get('title', '')) for each chunk.
Pieces ==
    [c \in {Strip(d) : d \in DocContents \cup {<<>>}} |->
        LET cs == SplitIntoChunks(c, ChunkMaxSize, ChunkOverlap)
        IN  [j \in 1..Len(cs) |->
                [chunk |-> cs[j], category |-> Categorize(cs[j], <<>>)]]]

\* doc.get('content', '').strip() for a document whose content is not None,
\* computed once for each content drawn.
Stripped == [c \in DocContents \cup {<<>>} |-> Strip(c)]

\* The entries of the chunks of document i: texts, metadatas and ids.
EntriesOf(i, c) ==
    [j \in 1..Len(Pieces[c]) |->
        Entry(i, j - 1, Pieces[c][j].chunk, Pieces[c][j].category)]

\* The loop over enumerate(documents) from the n-th document on (i = n - 1):
\* None has no strip(), a short content is skipped, the chunks of any other
\* content are appended.
RECURSIVE PrepareFrom(_, _, _)
PrepareFrom(docs, n, acc) ==
    IF n > Len(docs) THEN [raised |-> "none", entries |-> acc]
    ELSE IF docs[n].content_is = "None"
         THEN [raised |-> "AttributeError", entries |-> acc]
    ELSE LET c == Stripped[docs[n].content]
         IN  IF Len(c) < MinContentLength
             THEN PrepareFrom(docs, n + 1, acc)
             ELSE PrepareFrom(docs, n + 1, acc \o EntriesOf(n - 1, c))

IdsOf(entries) == {entries[n].id : n \in 1..Len(entries)}

\* The insertion loop from offset i on: one self.collection.add for every
\* max_batch_size entries. An add that meets an id the collection holds
\* either raises, storing nothing, or stores the other entries and discards
\* the entries of those ids (mode).
RECURSIVE InsertFrom(_, _, _, _, _)
InsertFrom(coll, entries, i, mode, lost) ==
    IF i >= Len(entries)
    THEN [collection |-> coll, raised |-> "none", dropped |-> lost]
    ELSE LET batch == Slice(entries, i, i + MaxBatchSize)
             held == IdsOf(batch) \cap IdsOf(coll)
         IN  IF held # {} /\ mode = "raise"
             THEN [collection |-> coll, raised |-> "DuplicateIDError",
                   dropped |-> lost]
             ELSE InsertFrom(
                      coll \o SelectSeq(batch, LAMBDA e : e.id \notin held),
                      entries, i + MaxBatchSize, mode,
                      lost \cup {batch[n] : n \in {m \in 1..Len(batch) :
                                                     batch[m].id \in held}})

\* add_documents(documents)
AddDocuments ==
    /\ calls < MaxCalls
    /\ \E docs \in Batches :
       \E prep \in {PrepareFrom(docs, 1, <<>>)} :
       \E ins \in {IF prep.raised # "none"
                    THEN [collection |-> collection, raised |-> prep.raised,
                          dropped |-> {}]
                    ELSE InsertFrom(collection, prep.entries, 0, on_duplicate,
                                    {})} :
       \E ids \in {IF prep.raised # "none" THEN {} ELSE IdsOf(prep.entries)} :
           /\ documents' = docs
           /\ before' = collection
           /\ collection' = ins.collection
           /\ raised' = ins.raised
           /\ dropped' = ins.dropped
           /\ clashed' = ids \cap IdsOf(collection)
           /\ issued' = issued \cup
                  (IF prep.raised # "none" THEN {}
                   ELSE {[id |-> prep.entries[n].id,
                          document |-> prep.entries[n].document] :
                            n \in 1..Len(prep.entries)})
           /\ ipc' = IF ins.raised # "none" THEN "raised" ELSE "returned"
    /\ calls' = calls + 1
    /\ UNCHANGED on_duplicate
    /\ UNCHANGED <<chunkVars, callVars, catVars, evalVars, moreVars>>

InitIngest ==
    /\ ChunkIdle
    /\ SearchIdle
    /\ CatIdle
    /\ EvalIdle
    /\ MoreIdle
    /\ documents = <<>>
    /\ on_duplicate \in {"raise", "skip"}
    /\ calls = 0
    /\ before = <<>>
    /\ issued = {}
    /\ clashed = {}
    /\ dropped = {}
    /\ raised = "none"
    /\ ipc = "idle"

NextIngest == AddDocuments

SpecIngest == InitIngest /\ [][NextIngest]_vars

(***************************************************************************)
(* Claims about add_documents, checked under SpecIngest.                   *)
(***************************************************************************)
\* C14: after any sequence of add_documents calls no two chunks of different
\* ingested documents or positions have been given the same id
\* doc_<i>_chunk_<j>, that is the same (source_doc_id, chunk_id).
C14_IdsNeverReissued ==
    \A a \in issued, b \in issued : a.id = b.id => a.document = b.document

\* C15: when add_documents would insert a chunk whose id is already
\* present, the call fails with a duplicate-id error, the entries stored
\* before the call are all kept as they were, and no new chunk is discarded
\* in silence.
C15_DuplicateIdFails ==
    (ipc # "idle" /\ clashed # {}) =>
        /\ raised = "DuplicateIDError"
        /\ dropped = {}
        /\ Take(collection, Len(before)) = before

\* Whether add_documents is meant to skip the document.
Unfit(doc) ==
    \/ doc.content_is # "str"
    \/ Len(Strip(doc.content)) < MinContentLength

\* C16: in a call that meets no id already stored, every document whose
\* content is missing, None or shorter than 20 characters once stripped is
\* skipped, the call returns, and every chunk of every other document of
\* the batch is stored.
C16_UnfitSkippedOthersStored ==
    (ipc # "idle" /\ clashed = {}) =>
        /\ raised = "none"
        /\ \A n \in 1..Len(documents) :
               IF Unfit(documents[n])
               THEN \A m \in (Len(before) + 1)..Len(collection) :
                        collection[m].metadata.source_doc_id # n - 1
               ELSE \A j \in 1..Len(Pieces[Strip(documents[n].content)]) :
                        \E m \in (Len(before) + 1)..Len(collection) :
                            /\ collection[m].id = <<"doc", n - 1, "chunk", j - 1>>
                            /\ collection[m].document =
                                   Pieces[Strip(documents[n].content)][j].chunk

(***************************************************************************)
(* evaluate_search and _calculate_metrics. A metric is an exact fraction   *)
(* <<numerator, denominator>> in lowest terms.                             *)
(***************************************************************************)
\* The most test cases of a call of evaluate_search.
MaxCases == 2

\* self.hybrid_search(query, n_results=10, category_filter=category)
EvalK == 10

RECURSIVE Gcd(_, _)
Gcd(a, b) == IF b = 0 THEN a ELSE Gcd(b, a % b)

\* n / d for n >= 0 and d > 0
Rat(n, d) == <<n \div Gcd(n, d), d \div Gcd(n, d)>>

\* 0.0
Zero == <<0, 1>>

RatAdd(x, y) == Rat(x[1] * y[2] + y[1] * x[2], x[2] * y[2])

RECURSIVE RatSum(_)
RatSum(seq) == IF seq = <<>> THEN Zero ELSE RatAdd(Head(seq), RatSum(Tail(seq)))

\* np.mean(seq) if seq else 0.0
Mean(seq) ==
    IF seq = <<>> THEN Zero
    ELSE Rat(RatSum(seq)[1], RatSum(seq)[2] * Len(seq))

\* set(seq)
ToSet(seq) == {seq[n] : n \in 1..Len(seq)}

\* f"doc_{meta.get('source_doc_id', '')}"
DocId(d) == <<"doc", d>>

\* The loop over results['metadatas'] that builds retrieved_ids.
RetrievedIds(metadatas) ==
    [n \in 1..Len(metadatas) |-> DocId(metadatas[n].source_doc_id)]

\* A slip in the precision: one too many in the denominator.
PrecisionOffByOne(relevant_retrieved, retrieved_set) ==
    Rat(Cardinality(relevant_retrieved), Cardinality(retrieved_set) + 1)

\* precision = len(relevant_retrieved) / len(retrieved_set)
Precision(relevant_retrieved, retrieved_set) ==
    Rat(Cardinality(relevant_retrieved), Cardinality(retrieved_set))

\* recall = len(relevant_retrieved) / len(relevant_ids)
Recall(relevant_retrieved, relevant_ids) ==
    Rat(Cardinality(relevant_retrieved), Cardinality(relevant_ids))

\* A slip in the loop: the hit at hand is not counted in its own precision.
RECURSIVE PrecisionSumLate(_, _, _, _, _)
PrecisionSumLate(ids, relevant_ids, n, relevant_count, acc) ==
    IF n > Len(ids) THEN acc
    ELSE IF ids[n] \in relevant_ids
         THEN PrecisionSumLate(ids, relevant_ids, n + 1, relevant_count + 1,
                               RatAdd(acc, Rat(relevant_count, n)))
         ELSE PrecisionSumLate(ids, relevant_ids, n + 1, relevant_count, acc)

\* The loop over enumerate(retrieved_ids) from position n on (i = n - 1),
\* acc being avg_precision.
RECURSIVE PrecisionSum(_, _, _, _, _)
PrecisionSum(ids, relevant_ids, n, relevant_count, acc) ==
    IF n > Len(ids) THEN acc
    ELSE IF ids[n] \in relevant_ids
         THEN PrecisionSum(ids, relevant_ids, n + 1, relevant_count + 1,
                           RatAdd(acc, Rat(relevant_count + 1, n)))
         ELSE PrecisionSum(ids, relevant_ids, n + 1, relevant_count, acc)

\* A slip: the sum of the precisions not divided by len(relevant_ids).
CalculateMetricsUndivided(retrieved_ids, relevant_ids) ==
    IF retrieved_ids = <<>> \/ relevant_ids = {} THEN <<Zero, Zero, Zero>>
    ELSE LET retrieved_set == ToSet(retrieved_ids)
             relevant_retrieved == retrieved_set \cap relevant_ids
             sum == PrecisionSum(retrieved_ids, relevant_ids, 1, 0, Zero)
         IN  <<Precision(relevant_retrieved, retrieved_set),
               Recall(relevant_retrieved, relevant_ids),
               Rat(sum[1], sum[2])>>

\* _calculate_metrics(retrieved_ids, relevant_ids): precision, recall and
\* average precision.
CalculateMetrics(retrieved_ids, relevant_ids) ==
    IF retrieved_ids = <<>> \/ relevant_ids = {} THEN <<Zero, Zero, Zero>>
    ELSE LET retrieved_set == ToSet(retrieved_ids)
             relevant_retrieved == retrieved_set \cap relevant_ids
             sum == PrecisionSum(retrieved_ids, relevant_ids, 1, 0, Zero)
         IN  <<Precision(relevant_retrieved, retrieved_set),
               Recall(relevant_retrieved, relevant_ids),
               Rat(sum[1], sum[2] * Cardinality(relevant_ids))>>

\* The test cases drawn: two of the queries, no category or "exam", four
\* lists of relevant ids (one names a document twice and one the index
\* never holds); the backend works or fails for both retrievers, and puts
\* every stored text at the same distance from every query. A case may
\* also lack the key 'query'.
EvalQueries == { <<"a", " ", "A">>, <<"b">> }

EvalFilters == {None, "exam"}

RelevantLists ==
    { <<>>, <<DocId(0)>>, <<DocId(0), DocId(1)>>,
      <<DocId(1), DocId(9), DocId(1)>> }

EvalDists == {1}

EvalDowns == {{}, Retrievers}

\* The indexes evaluate_search is run on: every entry is of category general.
EvalCollections ==
    {c \in Collections : \A n \in 1..Len(c) : c[n].metadata.category = "general"}

\* One iteration of the loop over test_queries: on a case with its keys,
\* the search and the metrics; on a case without the key 'query', the
\* KeyError of test_case['query'], which nothing in evaluate_search catches.
EvalCase ==
    /\ epc = "loop"
    /\ Len(judged) < MaxCases
    /\ \/ /\ \E q \in EvalQueries, rel \in RelevantLists, f \in EvalFilters,
                dn \in EvalDowns,
                dist \in [StoredTexts(collection) -> EvalDists] :
                /\ Hybrid("hybrid_search", q, EvalK, f, DefaultWeight, dn, dist)
                /\ \E retrieved_ids \in {RetrievedIds(result'.metadatas)} :
                   \E m \in {CalculateMetrics(retrieved_ids, ToSet(rel))} :
                       /\ all_precisions' = Append(all_precisions, m[1])
                       /\ all_recalls' = Append(all_recalls, m[2])
                       /\ all_avg_precisions' = Append(all_avg_precisions, m[3])
                       /\ judged' = Append(judged,
                                           [retrieved_ids |-> retrieved_ids,
                                            relevant_ids |-> ToSet(rel)])
          /\ UNCHANGED <<report, epc>>
       \/ /\ epc' = "raised"
          /\ UNCHANGED <<judged, all_precisions, all_recalls,
                         all_avg_precisions, report>>
          /\ UNCHANGED <<chunkVars, searchVars>>
    /\ UNCHANGED <<catVars, ingestVars, moreVars>>

\* The end of the loop and the return of the report.
EvalReturn ==
    /\ epc = "loop"
    /\ report' = [MAP |-> Mean(all_avg_precisions),
                  Precision |-> Mean(all_precisions),
                  Recall |-> Mean(all_recalls)]
    /\ epc' = "done"
    /\ UNCHANGED <<judged, all_precisions, all_recalls, all_avg_precisions>>
    /\ UNCHANGED <<chunkVars, searchVars, catVars, ingestVars, moreVars>>

InitEval ==
    /\ ChunkIdle
    /\ CatIdle
    /\ IngestIdle
    /\ MoreIdle
    /\ collection \in EvalCollections
    /\ down = {}
    /\ distance = <<>>
    /\ query = <<>>
    /\ n_results = 0
    /\ category_filter = None
    /\ semantic_weight = 0
    /\ asked = 0
    /\ semantic_results = <<>>
    /\ keyword_results = <<>>
    /\ combined_results = <<>>
    /\ result = Returned(<<>>)
    /\ spc = "idle"
    /\ judged = <<>>
    /\ all_precisions = <<>>
    /\ all_recalls = <<>>
    /\ all_avg_precisions = <<>>
    /\ report = [MAP |-> Zero, Precision |-> Zero, Recall |-> Zero]
    /\ epc = "loop"

NextEval ==
    \/ EvalCase
    \/ EvalReturn

SpecEval == InitEval /\ [][NextEval]_vars

(***************************************************************************)
(* Claims about evaluate_search, checked under SpecEval.                   *)
(***************************************************************************)
\* The sum f[1] + ... + f[n].
RECURSIVE SumTo(_, _)
SumTo(f, n) == IF n = 0 THEN 0 ELSE f[n] + SumTo(f, n - 1)

\* The product f[1] * ... * f[n].
RECURSIVE ProductTo(_, _)
ProductTo(f, n) == IF n = 0 THEN 1 ELSE f[n] * ProductTo(f, n - 1)

\* Whether the fraction x is the arithmetic mean of the fractions of seq,
\* and 0 for an empty seq: both sides are brought to the product of all the
\* denominators.
IsMeanOf(x, seq) ==
    IF seq = <<>> THEN x = <<0, 1>>
    ELSE LET den == ProductTo([n \in 1..Len(seq) |-> seq[n][2]], Len(seq))
             num == SumTo([n \in 1..Len(seq) |-> seq[n][1] * (den \div seq[n][2])],
                          Len(seq))
         IN  x[2] > 0 /\ x[1] * Len(seq) * den = x[2] * num

\* C19: for every test case, Precision = |retrieved /\ relevant| / |retrieved|
\* (0 when nothing is retrieved) and Recall = |retrieved /\ relevant| /
\* |relevant| (0 when relevant is empty), retrieved being the ids
\* doc_<source_doc_id> of what hybrid_search returned for n_results = 10; the
\* reported Precision and Recall are the arithmetic means over the cases,
\* and 0.0 for an empty list of cases.
C19_PrecisionRecallMeans ==
    /\ \A n \in 1..Len(judged) :
          LET ret == ToSet(judged[n].retrieved_ids)
              rel == judged[n].relevant_ids
              p == all_precisions[n]
              r == all_recalls[n]
          IN  /\ p[2] > 0
              /\ r[2] > 0
              /\ IF ret = {} THEN p = <<0, 1>>
                 ELSE p[1] * Cardinality(ret) = p[2] * Cardinality(ret \cap rel)
              /\ IF rel = {} THEN r = <<0, 1>>
                 ELSE r[1] * Cardinality(rel) = r[2] * Cardinality(ret \cap rel)
    /\ judged # <<>> =>
          /\ n_results = 10
          /\ judged[Len(judged)].retrieved_ids =
                 [m \in 1..Len(result.metadatas) |->
                     <<"doc", result.metadatas[m].source_doc_id>>]
    /\ epc = "done" =>
          /\ IsMeanOf(report.Precision, all_precisions)
          /\ IsMeanOf(report.Recall, all_recalls)

\* A finished evaluation of two cases, one with nothing retrieved and one
\* with a precision strictly between 0 and 1, whose reported precision is
\* none of the two.
C19_Witness ==
    /\ epc = "done"
    /\ Len(judged) = 2
    /\ \E n \in 1..2 : judged[n].retrieved_ids = <<>>
    /\ \E n \in 1..2 : all_precisions[n][1] > 0 /\ all_precisions[n] # <<1, 1>>
    /\ report.Precision \notin {all_precisions[1], all_precisions[2]}
    /\ report.Recall # <<0, 1>>

\* The number of relevant ids among the first i retrieved ids.
RelevantAmong(ids, rel, i) == Cardinality({j \in 1..i : ids[j] \in rel})

\* C20: for every test case, AveragePrecision = (1 / |relevant|) * the sum,
\* over the ranks i (1-based) of the retrieved list that hold a relevant
\* document, of (relevant documents among the first i) / i, and 0 when
\* relevant is empty; a first relevant and a second irrelevant document
\* retrieved for one relevant id give Precision 0.5, Recall 1.0 and
\* AveragePrecision 1.0.
C20_AveragePrecision ==
    \A n \in 1..Len(judged) :
        LET ids == judged[n].retrieved_ids
            rel == judged[n].relevant_ids
            ap == all_avg_precisions[n]
            all == ProductTo([i \in 1..Len(ids) |-> i], Len(ids))
            sum == SumTo([i \in 1..Len(ids) |->
                            IF ids[i] \in rel
                            THEN RelevantAmong(ids, rel, i) * (all \div i)
                            ELSE 0], Len(ids))
        IN  /\ ap[2] > 0
            /\ IF rel = {} THEN ap = <<0, 1>>
               ELSE ap[1] * Cardinality(rel) * all = ap[2] * sum
            /\ (ids = << <<"doc", 0>>, <<"doc", 1>> >> /\ rel = {<<"doc", 0>>})
                   => /\ all_precisions[n] = <<1, 2>>
                      /\ all_recalls[n] = <<1, 1>>
                      /\ ap = <<1, 1>>

\* The case of the example has been judged, and so has a case whose only
\* relevant document was retrieved second.
C20_Witness ==
    /\ \E n \in 1..Len(judged) :
          /\ judged[n].retrieved_ids = << <<"doc", 0>>, <<"doc", 1>> >>
          /\ judged[n].relevant_ids = {<<"doc", 0>>}
          /\ all_avg_precisions[n] = <<1, 1>>
    /\ \E n \in 1..Len(judged) :
          /\ judged[n].retrieved_ids = << <<"doc", 1>>, <<"doc", 0>> >>
          /\ judged[n].relevant_ids = {<<"doc", 0>>}
          /\ all_avg_precisions[n] = <<1, 2>>

\* C21: evaluate_search never aborts because of one bad case: no case,
\* malformed ones included, ends the run with an exception, and a case whose
\* retrieval failed contributes precision = recall = average precision = 0.
C21_BadCaseScoresZero ==
    /\ epc # "raised"
    /\ (judged # <<>> /\ down = Retrievers) =>
           /\ all_precisions[Len(judged)] = <<0, 1>>
           /\ all_recalls[Len(judged)] = <<0, 1>>
           /\ all_avg_precisions[Len(judged)] = <<0, 1>>

(***************************************************************************)
(* answer_question and clean_and_validate_context (src/main.py), on top   *)
(* of TDSKnowledgeBase.search (src/vector_db.py). The request holds no     *)
(* image.                                                                  *)
(***************************************************************************)
\* The most hits a search of the knowledge base returns.
MaxHits == 2

\* kb.search(search_query, n_results=5), kb.search(request.question, n_results=3)
FirstResults == 5
FallbackResults == 3

\* len(request.question.strip()) < 3, len(doc.strip()) < 50, doc[:800],
\* len(part.strip()) > 100, title[:100], len(answer.strip()) < 10, links[:3]
MinQuestionLength == 3
MinDocLength == 50
PreviewLength == 800
MinPartLength == 100
TitleLength == 100
MinAnswerLength == 10
MaxLinks == 3

NoContextText ==
    <<"N", "o", " ", "r", "e", "l", "e", "v", "a", "n", "t", " ", "c",
      "o", "n", "t", "e", "x", "t", " ", "f", "o", "u", "n", "d", " ",
      "i", "n", " ", "c", "o", "u", "r", "s", "e", " ", "m", "a", "t",
      "e", "r", "i", "a", "l", "s", ".">>

LimitedContextText ==
    <<"L", "i", "m", "i", "t", "e", "d", " ", "r", "e", "l", "e", "v",
      "a", "n", "t", " ", "c", "o", "n", "t", "e", "x", "t", " ", "f",
      "o", "u", "n", "d", " ", "i", "n", " ", "c", "o", "u", "r", "s",
      "e", " ", "m", "a", "t", "e", "r", "i", "a", "l", "s", ".">>

ApologyText ==
    <<"I", " ", "a", "p", "o", "l", "o", "g", "i", "z", "e", ",", " ",
      "b", "u", "t", " ", "I", "'", "m", " ", "h", "a", "v", "i", "n",
      "g", " ", "t", "r", "o", "u", "b", "l", "e", " ", "g", "e", "n",
      "e", "r", "a", "t", "i", "n", "g", " ", "a", " ", "c", "o", "m",
      "p", "r", "e", "h", "e", "n", "s", "i", "v", "e", " ", "r", "e",
      "s", "p", "o", "n", "s", "e", ".", " ", "C", "o", "u", "l", "d",
      " ", "y", "o", "u", " ", "p", "l", "e", "a", "s", "e", " ", "r",
      "e", "p", "h", "r", "a", "s", "e", " ", "y", "o", "u", "r", " ",
      "q", "u", "e", "s", "t", "i", "o", "n", " ", "o", "r", " ", "p",
      "r", "o", "v", "i", "d", "e", " ", "m", "o", "r", "e", " ", "d",
      "e", "t", "a", "i", "l", "s", "?">>

DefaultUsername ==
    <<"C", "o", "u", "r", "s", "e", " ", "M", "a", "t", "e", "r", "i",
      "a", "l">>

FallbackTitle ==
    <<"C", "o", "u", "r", "s", "e", " ", "D", "i", "s", "c", "u", "s",
      "s", "i", "o", "n">>

Digits == <<"0", "1", "2", "3", "4", "5", "6", "7", "8", "9">>

\* str(n) for n >= 0
RECURSIVE Decimal(_)
Decimal(n) ==
    IF n < 10 THEN <<Digits[n + 1]>>
    ELSE Decimal(n \div 10) \o <<Digits[(n % 10) + 1]>>

\* s.startswith(prefix)
StartsWith(s, prefix) == OccursAt(s, prefix, 0)

\* The questions, documents, urls, titles, distances and generated answers
\* drawn. A document is 10, 60 or 120 characters long; no metadata has a
\* username.
Questions == { <<>>, <<" ", "a", " ", " ">>, <<"w", "h", "y">> }

BriefLength == 10
MidLength == 60
FullLength == 120

KbDocs == {[n \in 1..len |-> "x"] : len \in {BriefLength, MidLength, FullLength}}

Urls ==
    { <<>>, <<"h", "t", "t", "p", ":", "/", "/", "a">>,
      <<"h", "t", "t", "p", ":", "/", "/", "b">> }

KbTitles == { <<" ", " ">>, <<"Q", "u", "i", "z">> }

KbDists == {0, 1}

KbHits ==
    {[document |-> d, metadata |-> [url |-> u, title |-> t], distance |-> x] :
        d \in KbDocs, u \in Urls, t \in KbTitles, x \in KbDists}

\* What kb.search(query, n_results = n) may return: at most n hits, nearest
\* first; the empty list also when the backend raised.
KbSearch(n) ==
    {r \in StringsUpTo(KbHits, Min(n, MaxHits)) :
        \A a \in 1..(Len(r) - 1) : r[a].distance <= r[a + 1].distance}

\* What generate_answer may return: a full answer, a short text, None.
Generated ==
    {[is |-> "None", text |-> <<>>],
     [is |-> "str", text |-> <<"o", "k">>],
     [is |-> "str", text |-> <<"U", "s", "e", " ", "p", "a", "n", "d", "a", "s",
                      " ", "f", "o", "r", " ", "i", "t", ".">>]}

\* f"Context {i+1} (from {username}): {doc_preview}"
ContextPart(i, doc) ==
    <<"C", "o", "n", "t", "e", "x", "t", " ">>
        \o Decimal(i + 1)
        \o <<" ", "(", "f", "r", "o", "m", " ">>
        \o DefaultUsername \o <<")", ":", " ">>
        \o Slice(doc, 0, PreviewLength)
        \o (IF Len(doc) > PreviewLength THEN <<".", ".", ".">> ELSE <<>>)

\* The context parts the loop can build, and part.strip() for each.
ContextParts == {ContextPart(i, d) : i \in 0..(MaxHits - 1), d \in KbDocs}

PartStripped == [part \in ContextParts |-> Strip(part)]

\* doc.strip() for each document drawn.
DocStripped == [doc \in KbDocs |-> Strip(doc)]

\* "\n\n".join(parts)
RECURSIVE JoinParts(_)
JoinParts(parts) ==
    IF parts = <<>> THEN <<>>
    ELSE IF Len(parts) = 1 THEN parts[1]
    ELSE parts[1] \o <<"\n", "\n">> \o JoinParts(Tail(parts))

\* A slip: the test for an empty list of parts left out.
CleanAndValidateContextNoGuard(parts) ==
    LET filtered_parts ==
            SelectSeq(parts, LAMBDA part : Len(PartStripped[part]) > MinPartLength)
    IN  IF filtered_parts = <<>> THEN LimitedContextText
        ELSE JoinParts(filtered_parts)

\* clean_and_validate_context(context_parts)
CleanAndValidateContext(parts) ==
    IF parts = <<>> THEN NoContextText
    ELSE LET filtered_parts ==
                 SelectSeq(parts,
                           LAMBDA part : Len(PartStripped[part]) > MinPartLength)
         IN  IF filtered_parts = <<>> THEN LimitedContextText
             ELSE JoinParts(filtered_parts)

\* Link(url=url, text=clean_title)
LinkOf(metadata) ==
    LET clean_title == Strip(Slice(metadata.title, 0, TitleLength))
    IN  [url |-> metadata.url,
         text |-> IF clean_title = <<>> THEN FallbackTitle ELSE clean_title]

\* The loop over zip(documents, metadatas) from the n-th hit on (i = n - 1).
RECURSIVE BuildFrom(_, _, _, _, _)
BuildFrom(results, n, parts, lnks, seen_urls) ==
    IF n > Len(results) THEN [context_parts |-> parts, links |-> lnks]
    ELSE LET doc == results[n].document
             url == results[n].metadata.url
         IN  IF doc = <<>> \/ Len(DocStripped[doc]) < MinDocLength
             THEN BuildFrom(results, n + 1, parts, lnks, seen_urls)
             ELSE IF /\ url # <<>>
                     /\ url \notin seen_urls
                     /\ StartsWith(url, <<"h", "t", "t", "p">>)
                  THEN BuildFrom(results, n + 1,
                                 Append(parts, ContextPart(n - 1, doc)),
                                 Append(lnks, LinkOf(results[n].metadata)),
                                 seen_urls \cup {url})
                  ELSE BuildFrom(results, n + 1,
                                 Append(parts, ContextPart(n - 1, doc)),
                                 lnks, seen_urls)

\* answer_question(request): 503 without a knowledge base, 400 for a
\* question under 3 characters, else the search, the fallback search, the
\* context, the links and the answer.
AnswerQuestion ==
    /\ apc = "request"
    /\ apc' = "done"
    /\ \/ /\ kb = "None"
          /\ status' = 503
          /\ UNCHANGED <<search_results, searches, context_parts, links,
                         context, answer>>
       \/ /\ kb # "None"
          /\ question = <<>> \/ Len(Strip(question)) < MinQuestionLength
          /\ status' = 400
          /\ UNCHANGED <<search_results, searches, context_parts, links,
                         context, answer>>
       \/ /\ kb # "None"
          /\ ~(question = <<>> \/ Len(Strip(question)) < MinQuestionLength)
          /\ \E first \in KbSearch(FirstResults), made \in Generated :
             \E used \in (IF first = <<>> THEN KbSearch(FallbackResults)
                           ELSE {first}) :
             \E built \in {BuildFrom(used, 1, <<>>, <<>>, {})} :
                 /\ search_results' = used
                 /\ searches' = IF first = <<>> THEN 2 ELSE 1
                 /\ context_parts' = built.context_parts
                 /\ context' = CleanAndValidateContext(built.context_parts)
                 /\ answer' = IF \/ made.is = "None"
                                 \/ made.text = <<>>
                                 \/ Len(Strip(made.text)) < MinAnswerLength
                              THEN ApologyText ELSE made.text
                 /\ links' = Take(built.links, MaxLinks)
                 /\ status' = 200
    /\ UNCHANGED <<kb, question>>
    /\ UNCHANGED <<chunkVars, searchVars, catVars, ingestVars, evalVars,
                   scrapeVars, docVars, batchVars>>

InitAnswer ==
    /\ ChunkIdle
    /\ SearchIdle
    /\ CatIdle
    /\ IngestIdle
    /\ EvalIdle
    /\ ScrapeIdle
    /\ DocIdle
    /\ BatchIdle
    /\ kb \in {"None", "ready"}
    /\ question \in Questions
    /\ search_results = <<>>
    /\ searches = 0
    /\ context_parts = <<>>
    /\ links = <<>>
    /\ context = <<>>
    /\ answer = <<>>
    /\ status = 0
    /\ apc = "request"

NextAnswer == AnswerQuestion

SpecAnswer == InitAnswer /\ [][NextAnswer]_vars

(***************************************************************************)
(* Claims about answer_question, checked under SpecAnswer.                 *)
(***************************************************************************)
\* C22: when the search of the knowledge base, and the fallback search on
\* the bare question after it, return an empty list, the request does not
\* fail: it is answered with status 200, the context is the text "No
\* relevant context found in course materials." and the list of links is
\* empty.
C22_EmptySearchDegrades ==
    (apc = "done" /\ searches > 0 /\ search_results = <<>>) =>
        /\ searches = 2
        /\ status = 200
        /\ context = NoContextText
        /\ links = <<>>
        /\ answer # <<>>

\* A request with a valid question whose two searches returned nothing has
\* been answered with the apology, generate_answer having returned None.
C22_Witness ==
    /\ apc = "done"
    /\ kb = "ready"
    /\ searches = 2
    /\ search_results = <<>>
    /\ status = 200
    /\ answer = ApologyText

\* Whether the a-th hit comes before the b-th one when the hits are sorted
\* by (score, text length) descending, the sort being stable; the score
\* falls as the distance grows.
RankedBefore(a, b) ==
    LET x == search_results[a]
        y == search_results[b]
    IN  \/ x.distance < y.distance
        \/ x.distance = y.distance /\ Len(x.document) > Len(y.document)
        \/ x.distance = y.distance /\ Len(x.document) = Len(y.document) /\ a < b

\* The hit that comes first in that order among the hits with the url.
FirstRanked(url) ==
    CHOOSE a \in 1..Len(search_results) :
        /\ search_results[a].metadata.url = url
        /\ \A b \in 1..Len(search_results) :
               (b # a /\ search_results[b].metadata.url = url) => RankedBefore(a, b)

\* C23: the links of an answered request hold no empty url and at most one
\* link per url; the link of a url is made from the hit that comes first
\* among the hits of that url when they are sorted by (score, text length)
\* descending; and the links appear in that ranking order.
C23_LinksFromBestPerUrl ==
    (apc = "done" /\ status = 200) =>
        /\ \A n \in 1..Len(links) : links[n].url # <<>>
        /\ \A m, n \in 1..Len(links) : links[m].url = links[n].url => m = n
        /\ \A n \in 1..Len(links) :
               links[n] = LinkOf(search_results[FirstRanked(links[n].url)].metadata)
        /\ \A m, n \in 1..Len(links) :
               m < n => RankedBefore(FirstRanked(links[m].url),
                                     FirstRanked(links[n].url))

(***************************************************************************)
(* _split_into_chunks on windows wide enough to hold two sentence endings. *)
(***************************************************************************)
CutLen == 7
CutSize == 6

InitCut ==
    /\ SearchIdle
    /\ RestIdle
    /\ text \in StringsUpTo(Alphabet, CutLen)
    /\ max_size = CutSize
    /\ overlap \in {0, 1}
    /\ start = 0
    /\ chunks = <<>>
    /\ spans = <<>>
    /\ iters = 0
    /\ cpc = "call"

SpecCut == InitCut /\ [][NextChunk]_vars

\* The indices in text[from : from + max_size] at which a sentence ending,
\* and at which a space, occurs.
EndingsIn(from) ==
    {i \in from..(from + max_size - 2) :
        \E p \in 1..Len(Puncts) : OccursAt(text, Puncts[p], i)}

SpacesIn(from) ==
    {i \in from..(from + max_size - 1) : OccursAt(text, <<" ">>, i)}

\* C24: a window that must be cut before the end of the text is cut just
\* after the latest sentence ending ('. ', '! ' or '? ') that occurs in it;
\* only when it holds none, at its last space; only when it holds no space
\* either, at exactly start + max_size.
C24_CutAtNearestEnding ==
    \A n \in 1..Len(spans) :
        LET from == spans[n].from
            endings == EndingsIn(from)
            spaces == SpacesIn(from)
        IN  spans[n].cut \in {"sentence", "space", "hard"} =>
                spans[n].to =
                    IF endings # {}
                    THEN (CHOOSE i \in endings : \A j \in endings : j <= i) + 2
                    ELSE IF spaces # {}
                    THEN CHOOSE i \in spaces : \A j \in spaces : j <= i
                    ELSE from + max_size

(***************************************************************************)
(* keyword_search called on its own.                                       *)
(***************************************************************************)
\* The most entries the scanned index holds, and the largest n_results.
MaxScanned == 3

ScannedCollections ==
    UNION { { CollectionOf(g) :
                g \in { h \in [1..m -> DocIds \X Texts \X Cats] :
                          \A a, b \in 1..m : a < b => h[a][1] <= h[b][1] } } :
            m \in 0..MaxScanned }

\* The three lists keyword_search returns, built from top_docs.
KeywordReturned(top_docs) ==
    [documents |-> [n \in 1..Len(top_docs) |-> top_docs[n].document],
     metadatas |-> [n \in 1..Len(top_docs) |-> top_docs[n].metadata],
     scores |-> [n \in 1..Len(top_docs) |-> top_docs[n].score]]

\* keyword_search(q, n, f), against a backend that fails when "keyword" is
\* in dn.
KeywordSearchCall ==
    /\ spc = "idle"
    /\ \E q \in Queries, n \in 0..MaxScanned, f \in Filters,
          dn \in {{}, {"keyword"}} :
       \E kw \in {KeywordSearch(collection, dn, q, n, f)} :
           /\ query' = q
           /\ n_results' = n
           /\ category_filter' = f
           /\ down' = dn
           /\ keyword_results' = kw.hits
           /\ result' = KeywordReturned(kw.hits)
           /\ spc' = "keyword_search"
    /\ UNCHANGED <<collection, distance, semantic_weight, asked,
                   semantic_results, combined_results>>
    /\ UNCHANGED chunkVars
    /\ UNCHANGED restVars

InitKeyword ==
    /\ ChunkIdle
    /\ RestIdle
    /\ collection \in ScannedCollections
    /\ down = {}
    /\ distance = <<>>
    /\ query = <<>>
    /\ n_results = 0
    /\ category_filter = None
    /\ semantic_weight = 0
    /\ asked = 0
    /\ semantic_results = <<>>
    /\ keyword_results = <<>>
    /\ combined_results = <<>>
    /\ result = KeywordReturned(<<>>)
    /\ spc = "idle"

NextKeyword == KeywordSearchCall

SpecKeyword == InitKeyword /\ [][NextKeyword]_vars

(***************************************************************************)
(* Claims about keyword_search, checked under SpecKeyword.                 *)
(***************************************************************************)
\* The entries the scan of keyword_search goes over, in scan order.
Scanned == Get(collection, category_filter)

\* The scores of the scanned entries: for each, the occurrences, as str.count
\* counts them, of the lower-cased whitespace tokens of the query in its
\* lower-cased text, summed over the tokens.
ScanScores ==
    [i \in 1..Len(Scanned) |-> KeywordCount(Scanned[i].document, query)]

\* The place of each scanned entry among those with a positive score, by
\* descending score and, for equal scores, scan order.
ScanRanks(score) ==
    [i \in DOMAIN score |->
        Cardinality({j \in DOMAIN score :
                        /\ score[j] > 0
                        /\ \/ score[j] > score[i]
                           \/ score[j] = score[i] /\ j < i}) + 1]

\* C25: keyword_search returns exactly the scanned chunks with a score above
\* 0, in descending score order with equal scores in scan order, cut to
\* n_results; the i-th document, metadata and score belong to the same chunk.
C25_KeywordResults ==
    (spc = "keyword_search" /\ "keyword" \notin down) =>
        \A scanned \in {Scanned} :
        \A score \in {ScanScores} :
        \A rank \in {ScanRanks(score)} :
            LET positive == {i \in DOMAIN score : score[i] > 0}
                kept == {i \in positive : rank[i] <= n_results}
            IN  /\ Len(result.documents) = Min(n_results, Cardinality(positive))
                /\ Len(result.metadatas) = Len(result.documents)
                /\ Len(result.scores) = Len(result.documents)
                /\ \A i \in kept :
                       /\ result.documents[rank[i]] = scanned[i].document
                       /\ result.metadatas[rank[i]] = scanned[i].metadata
                       /\ result.scores[rank[i]] = score[i]

\* Three chunks were scanned, all matched, two of them with the same score
\* behind a better one, and the list was cut to two.
C25_Witness ==
    /\ spc = "keyword_search"
    /\ "keyword" \notin down
    /\ n_results = 2
    /\ Len(Scanned) = 3
    /\ \E score \in {ScanScores} :
           /\ score[1] = score[2]
           /\ score[3] > score[1]
           /\ score[1] > 0
    /\ result.metadatas = <<Scanned[3].metadata, Scanned[1].metadata>>

(***************************************************************************)
(* add_documents: the insertion loop over the lists texts, metadatas and   *)
(* ids.                                                                    *)
(***************************************************************************)
\* How far from 0, max_batch_size and 2 * max_batch_size the numbers of
\* chunks drawn lie.
Around == 3

Totals ==
    {n \in 0..(2 * MaxBatchSize + Around) :
        \E c \in {0, MaxBatchSize, 2 * MaxBatchSize} :
            n >= c - Around /\ n <= c + Around}

\* Where the chunks come from: one document split into all of them, or as
\* many documents of one chunk each.
Shapes == {"one", "each"}

\* The k-th chunk (from 0) the loop over the documents appended. The loop
\* of the insertion never reads a text; the text drawn for a chunk is the
\* numeral of k.
ChunkAt(k, shape) ==
    IF shape = "one" THEN Entry(0, k, Decimal(k), "general")
    ELSE Entry(k, 0, Decimal(k), "general")

\* A slip in the slice: one item short.
BatchOneShort(list, at) == Slice(list, at, at + MaxBatchSize - 1)

\* list[i:i + max_batch_size]
Batch(list, at) == Slice(list, at, at + MaxBatchSize)

\* One iteration of `for i in range(0, total, max_batch_size)`, with its
\* call of collection.add on an index that holds none of the ids.
InsertBatch ==
    /\ bpc = "loop"
    /\ batch_from < Len(all_texts)
    /\ \E batch_texts \in {Batch(all_texts, batch_from)} :
       \E batch_ids \in {Batch(all_ids, batch_from)} :
       \E batch_metadatas \in {Batch(all_metadatas, batch_from)} :
           /\ inserts' = Append(inserts, [documents |-> batch_texts,
                                          metadatas |-> batch_metadatas,
                                          ids |-> batch_ids])
           /\ collection' = collection \o
                  [n \in 1..Len(batch_ids) |->
                      [id |-> batch_ids[n],
                       document |-> batch_texts[n],
                       metadata |-> batch_metadatas[n]]]
    /\ batch_from' = batch_from + MaxBatchSize
    /\ UNCHANGED <<all_texts, all_metadatas, all_ids, bpc>>
    /\ UNCHANGED <<chunkVars, callVars, catVars, ingestVars, evalVars,
                   answerVars, scrapeVars, docVars>>

\* The range is used up: the loop ends.
InsertDone ==
    /\ bpc = "loop"
    /\ batch_from >= Len(all_texts)
    /\ bpc' = "done"
    /\ UNCHANGED <<all_texts, all_metadatas, all_ids, batch_from, inserts>>
    /\ UNCHANGED <<chunkVars, searchVars, catVars, ingestVars, evalVars,
                   answerVars, scrapeVars, docVars>>

InitBatch ==
    /\ ChunkIdle
    /\ SearchIdle
    /\ CatIdle
    /\ IngestIdle
    /\ EvalIdle
    /\ AnswerIdle
    /\ ScrapeIdle
    /\ DocIdle
    /\ \E total \in Totals, shape \in Shapes :
           /\ all_texts = [n \in 1..total |-> ChunkAt(n - 1, shape).document]
           /\ all_metadatas = [n \in 1..total |-> ChunkAt(n - 1, shape).metadata]
           /\ all_ids = [n \in 1..total |-> ChunkAt(n - 1, shape).id]
    /\ batch_from = 0
    /\ inserts = <<>>
    /\ bpc = "loop"

NextBatch ==
    \/ InsertBatch
    \/ InsertDone

SpecBatch == InitBatch /\ [][NextBatch]_vars

(***************************************************************************)
(* Claims about the insertion loop, checked under SpecBatch.               *)
(***************************************************************************)
\* The lists of the calls of collection.add so far, one after the other.
RECURSIVE InsertedUpTo(_, _)
InsertedUpTo(field, b) ==
    IF b = 0 THEN <<>>
    ELSE InsertedUpTo(field, b - 1) \o
         (IF field = "documents" THEN inserts[b].documents
          ELSE IF field = "ids" THEN inserts[b].ids
          ELSE inserts[b].metadatas)

\* C26: whatever the number of chunks, below, at or above 5000, every call
\* of collection.add carries at most 5000 items and as many texts as ids and
\* metadatas; once the loop is over the sub-batches put one after the other
\* in call order are the full lists, so every chunk was inserted exactly
\* once and the i-th text, id and metadata of a sub-batch belong to the same
\* chunk.
C26_BatchesTransparent ==
    /\ \A b \in 1..Len(inserts) :
           /\ Len(inserts[b].ids) <= MaxBatchSize
           /\ Len(inserts[b].ids) > 0
           /\ Len(inserts[b].documents) = Len(inserts[b].ids)
           /\ Len(inserts[b].metadatas) = Len(inserts[b].ids)
    /\ bpc = "done" =>
           /\ InsertedUpTo("documents", Len(inserts)) = all_texts
           /\ InsertedUpTo("ids", Len(inserts)) = all_ids
           /\ InsertedUpTo("metadatas", Len(inserts)) = all_metadatas
           /\ Len(collection) = Len(all_ids)
           /\ \A n \in 1..Len(collection) :
                  collection[n] = [id |-> all_ids[n], document |-> all_texts[n],
                                   metadata |-> all_metadatas[n]]

\* The loop is over for one more chunk than two full sub-batches hold:
\* three calls were made, the last with a single chunk.
C26_Witness ==
    /\ bpc = "done"
    /\ Len(all_texts) = 2 * MaxBatchSize + 1
    /\ Len(inserts) = 3
    /\ Len(inserts[1].ids) = MaxBatchSize
    /\ Len(inserts[3].ids) = 1

(***************************************************************************)
(* A claim about the fusion of hybrid_search, checked under SpecSearch.    *)
(***************************************************************************)
\* The highest semantic score, and the highest keyword score, among the
\* hits of document d in a retriever's list; 0 without a hit.
BestSemantic(d) ==
    LET scores == {SemanticScore(semantic_results[n].distance) :
                      n \in HitsOf(semantic_results, d)}
    IN  IF scores = {} THEN 0
        ELSE CHOOSE x \in scores : \A y \in scores : y <= x

BestKeyword(d) ==
    LET scores == {KeywordScore(keyword_results[n].score) :
                      n \in HitsOf(keyword_results, d)}
    IN  IF scores = {} THEN 0
        ELSE CHOOSE x \in scores : \A y \in scores : y <= x

\* C27: when several chunks of one source document occur in the list of a
\* retriever, the fused record of the document carries the highest score
\* among them for that signal, with the text and metadata of the chunk that
\* earned it: a lower-ranked chunk never lowers the semantic_score, the
\* keyword_score or the final score of the document.
C27_BestChunkKept ==
    HasReturned =>
        \A r \in 1..Len(combined_results) :
            LET rec == combined_results[r]
                d == rec.key
            IN  /\ rec.semantic_score = BestSemantic(d)
                /\ rec.keyword_score = BestKeyword(d)
                /\ rec.final_score =
                       FinalScore(BestSemantic(d), BestKeyword(d), semantic_weight)
                /\ HitsOf(semantic_results, d) # {} =>
                       \E n \in HitsOf(semantic_results, d) :
                           /\ SemanticScore(semantic_results[n].distance)
                                  = BestSemantic(d)
                           /\ rec.document = semantic_results[n].document
                           /\ rec.metadata = semantic_results[n].metadata

(***************************************************************************)
(* A claim about the range of the metrics, checked under SpecEval.         *)
(***************************************************************************)
\* Whether the fraction x lies in [0, 1].
InUnitInterval(x) == x[2] > 0 /\ 0 <= x[1] /\ x[1] <= x[2]

\* C28: for every index and every list of evaluation cases, the precision,
\* the recall and the average precision of every case, and the reported
\* MAP, Precision and Recall, lie in [0, 1].
C28_MetricsInUnitInterval ==
    /\ \A n \in 1..Len(all_precisions) : InUnitInterval(all_precisions[n])
    /\ \A n \in 1..Len(all_recalls) : InUnitInterval(all_recalls[n])
    /\ \A n \in 1..Len(all_avg_precisions) : InUnitInterval(all_avg_precisions[n])
    /\ InUnitInterval(report.MAP)
    /\ InUnitInterval(report.Precision)
    /\ InUnitInterval(report.Recall)

\* A report over two cases, one with every metric at 1 and one with a
\* precision strictly between 0 and 1.
C28_Witness ==
    /\ epc = "done"
    /\ Len(judged) = 2
    /\ \E n \in 1..2 :
           /\ all_precisions[n] = <<1, 1>>
           /\ all_recalls[n] = <<1, 1>>
           /\ all_avg_precisions[n] = <<1, 1>>
    /\ \E n \in 1..2 : all_precisions[n][1] > 0 /\ all_precisions[n][1] < all_precisions[n][2]
    /\ report.Precision[1] > 0
    /\ report.Precision[1] < report.Precision[2]

(***************************************************************************)
(* scrape_category_by_date (src/Scraper.py; src/scraper.py has the same    *)
(* loop).                                                                  *)
(***************************************************************************)
\* The most listing pages fetched, and the most topics on a page.
MaxPages == 4
MaxTopics == 2

\* max_consecutive_empty = 3
MaxConsecutiveEmpty == 3

\* What fetching a listing page can come to: a status other than 200, a
\* listing without topics, an exception (the request, the JSON or a topic
\* without a date), or a page of topics, so many of them inside the date
\* range, so many of those with details fetch_topic_details could get, so
\* many older than the start date, the others newer than the end date.
Pages ==
    {[kind |-> k, topics |-> 0, in_range |-> 0, stored |-> 0, too_old |-> 0] :
        k \in {"status", "no topics", "exception"}}
    \cup
    {p \in [kind : {"topics"}, topics : 1..MaxTopics, in_range : 0..MaxTopics,
            stored : 0..MaxTopics, too_old : 0..MaxTopics] :
        p.stored <= p.in_range /\ p.in_range + p.too_old <= p.topics}

\* The counter after a page of topics: set to 0 or raised by one for the
\* valid posts, then raised by one more when every topic is too old.
CountAfter(count, p) ==
    LET counted == IF p.stored > 0 THEN 0 ELSE count + 1
    IN  IF p.too_old = p.topics /\ p.too_old > 0 THEN counted + 1 ELSE counted

\* One iteration of the while loop.
FetchPage ==
    /\ rpc = "loop"
    /\ consecutive_empty_pages < MaxConsecutiveEmpty
    /\ page < MaxPages
    /\ \E p \in Pages :
           /\ fetched' = Append(fetched, p)
           /\ \/ /\ p.kind \in {"status", "no topics"}
                 /\ rpc' = "done"
                 /\ UNCHANGED <<page, consecutive_empty_pages, all_data>>
              \/ /\ p.kind = "exception"
                 /\ consecutive_empty_pages' = consecutive_empty_pages + 1
                 /\ page' = page + 1
                 /\ UNCHANGED <<all_data, rpc>>
              \/ /\ p.kind = "topics"
                 /\ all_data' = all_data + p.stored
                 /\ consecutive_empty_pages' =
                        CountAfter(consecutive_empty_pages, p)
                 /\ page' = page + 1
                 /\ UNCHANGED rpc
    /\ UNCHANGED <<chunkVars, searchVars, catVars, ingestVars, evalVars,
                   answerVars, docVars, batchVars>>

\* The while condition fails: the data is saved and returned.
ScrapeReturn ==
    /\ rpc = "loop"
    /\ consecutive_empty_pages >= MaxConsecutiveEmpty
    /\ rpc' = "done"
    /\ UNCHANGED <<page, consecutive_empty_pages, all_data, fetched>>
    /\ UNCHANGED <<chunkVars, searchVars, catVars, ingestVars, evalVars,
                   answerVars, docVars, batchVars>>

InitScrape ==
    /\ ChunkIdle
    /\ SearchIdle
    /\ CatIdle
    /\ IngestIdle
    /\ EvalIdle
    /\ AnswerIdle
    /\ DocIdle
    /\ BatchIdle
    /\ page = 0
    /\ consecutive_empty_pages = 0
    /\ all_data = 0
    /\ fetched = <<>>
    /\ rpc = "loop"

NextScrape ==
    \/ FetchPage
    \/ ScrapeReturn

SpecScrape == InitScrape /\ [][NextScrape]_vars

(***************************************************************************)
(* A claim about scrape_category_by_date, checked under SpecScrape.        *)
(***************************************************************************)
\* C29: the paging goes on until 3 consecutive pages have yielded no topic
\* inside the date range, and stops before that only on a listing without
\* topics or a status other than 200; a page with at least one topic inside
\* the date range sets the count of consecutive empty pages to 0.
C29_StopsAfterThreeEmptyPages ==
    /\ (rpc = "done" /\ (fetched = <<>> \/
                         fetched[Len(fetched)].kind \notin {"status", "no topics"}))
           => /\ Len(fetched) >= MaxConsecutiveEmpty
              /\ \A n \in (Len(fetched) - MaxConsecutiveEmpty + 1)..Len(fetched) :
                     fetched[n].in_range = 0
    /\ (fetched # <<>> /\ fetched[Len(fetched)].in_range > 0)
           => consecutive_empty_pages = 0

(***************************************************************************)
(* chunk_content, the chunker of scrape_docsify_site (src/Scraper.py).     *)
(***************************************************************************)
\* The longest text, the largest size and overlap, and the most chunks the
\* loop is followed for.
MaxDocLen == 3
MaxDocSize == 3
MaxDocOverlap == 3
MaxDocChunks == 4

\* s[a:b], an index below 0 counting from the end of s.
PySlice(s, a, b) ==
    LET lo == IF a < 0 THEN Max(a + Len(s), 0) ELSE Min(a, Len(s))
        hi == IF b < 0 THEN Max(b + Len(s), 0) ELSE Min(b, Len(s))
    IN  Slice(s, lo, hi)

\* One iteration of `while i < len(text)`.
ChunkContentStep ==
    /\ dpc = "loop"
    /\ doc_i < Len(doc_text)
    /\ Len(doc_chunks) < MaxDocChunks
    /\ \E end \in {doc_i + doc_size} :
           /\ doc_chunks' = Append(doc_chunks, PySlice(doc_text, doc_i, end))
           /\ doc_i' = end - doc_overlap
    /\ UNCHANGED <<doc_text, doc_size, doc_overlap, dpc>>
    /\ UNCHANGED <<chunkVars, searchVars, catVars, ingestVars, evalVars,
                   answerVars, scrapeVars, batchVars>>

\* The while condition fails: return chunks
ChunkContentReturn ==
    /\ dpc = "loop"
    /\ doc_i >= Len(doc_text)
    /\ dpc' = "done"
    /\ UNCHANGED <<doc_text, doc_size, doc_overlap, doc_i, doc_chunks>>
    /\ UNCHANGED <<chunkVars, searchVars, catVars, ingestVars, evalVars,
                   answerVars, scrapeVars, batchVars>>

InitDoc ==
    /\ ChunkIdle
    /\ SearchIdle
    /\ CatIdle
    /\ IngestIdle
    /\ EvalIdle
    /\ AnswerIdle
    /\ ScrapeIdle
    /\ BatchIdle
    /\ doc_text \in StringsUpTo({"a", "b"}, MaxDocLen)
    /\ doc_size \in 1..MaxDocSize
    /\ doc_overlap \in 0..MaxDocOverlap
    /\ doc_i = 0
    /\ doc_chunks = <<>>
    /\ dpc = "loop"

NextDoc ==
    \/ ChunkContentStep
    \/ ChunkContentReturn

SpecDoc == InitDoc /\ [][NextDoc]_vars

(***************************************************************************)
(* A claim about chunk_content, checked under SpecDoc.                     *)
(***************************************************************************)
\* C30: chunk_content terminates for every text, every size >= 1 and every
\* overlap >= 0: the index of its window is strictly higher after every
\* iteration of the loop, until it reaches the end of the text.
C30_IndexIncreases ==
    [][ChunkContentStep => doc_i' > doc_i]_vars

====
